---- MODULE Spec2Model ----
(***************************************************************************)
(* Model of the cortex asynchronous dequeuer: pkg/dequeuer/async_handler.go *)
(* (AsyncMessageHandler) driven by a queue consumer, with the S3 bucket,   *)
(* the SQS queue and the user container as the environment.                *)
(*                                                                         *)
(* Every call that leaves the process (an S3 put/get/delete, the HTTP POST)*)
(* is one step of a worker; whether the call succeeds is chosen by the     *)
(* environment.  Several workers run the same handler over one bucket.     *)
(***************************************************************************)
EXTENDS Integers, Sequences, FiniteSets, TLC

\* ------------------------------------------------------------------ bounds
\* deliveries the queue makes in all before it stops redelivering (redrive policy)
MaxReceive == 3

Workers == {"w1", "w2"}
\* message ids the queue knows; Init says which of them the producer enqueued
MsgIds == {1, 2}
\* the request id the producer enqueued as message m
RequestIDOf(m) == "req-" \o ToString(m)
RequestIDs == {RequestIDOf(m) : m \in MsgIds}

\* ------------------------------------------------------ messages (sqs.Message)
\* message == nil, message.Body == nil: distinct from every body string
NilMessage == "<nil message>"
NilBody == "<nil body>"
\* what the consumer can hand to Handle
Bodies == RequestIDs \cup {"", NilBody, NilMessage}

\* ------------------------------------------------------------ async.Status
StatusInProgress == "in_progress"
StatusCompleted == "completed"
StatusFailed == "failed"
Statuses == {StatusInProgress, StatusCompleted, StatusFailed}
TerminalStatuses == {StatusCompleted, StatusFailed}

\* ------------------------------------------------------------ storage keys
\* key of a status marker: <prefix>/<requestID>/status/<status>
StatusPath(requestID, status) == <<requestID, "status", status>>
\* key of the payload object: <prefix>/<requestID>/payload
PayloadPath(requestID) == <<requestID, "payload">>
\* key of the result object: <prefix>/<requestID>/result.json
ResultPath(requestID) == <<requestID, "result">>

\* ids a key can be derived from (the empty id only if validation lets it through)
KeyIDs == RequestIDs \cup {""}
Keys ==
  {StatusPath(r, st) : r \in KeyIDs, st \in Statuses}
    \cup {PayloadPath(r) : r \in KeyIDs} \cup {ResultPath(r) : r \in KeyIDs}

\* ------------------------------------------------------------ S3 objects
NoContentType == "<nil>"
NoObject == [exists |-> FALSE, body |-> "", contentType |-> NoContentType]
Object(body, contentType) == [exists |-> TRUE, body |-> body, contentType |-> contentType]
\* payloads an external producer may have stored before enqueueing the id
PayloadObjects == {Object("payload-bytes", ct) : ct \in {NoContentType, "text/plain"}}

\* --------------------------------------------------------- user container
JSONValues == {"v1", "v2"}
Undecodable == "<not json>"
JSONPrefix == <<"application/json">>
\* Content-Type header values of a response, as token sequences (<<>>: no header)
ResponseContentTypes ==
  { <<"application/json">>, <<"application/json", "; charset=utf-8">>,
    <<"text/plain">>, <<"text/plain", "application/json">>, <<>> }
StatusOK == 200
ResponseStatusCodes == {200, 500}
\* outcomes of httpClient.Do: a transport error or a response
NotReachable == [reached |-> FALSE, statusCode |-> 0, contentType |-> <<>>, body |-> Undecodable]
Responses ==
  [reached : {TRUE}, statusCode : ResponseStatusCodes,
   contentType : ResponseContentTypes, body : JSONValues \cup {Undecodable}]
HTTPOutcomes == {NotReachable} \cup Responses

\* ------------------------------------------------------------------ errors
NoError == "nil"
Running == "<running>"
ErrUnexpected == "unexpected"
ErrUpdateInProgress == "failed to update status to in_progress"
ErrGetPayload == "failed to get payload"
ErrUpdateFailed == "failed to update status to failed"
ErrUploadResult == "failed to upload result to storage"
ErrUpdateCompleted == "failed to update status to completed"
ErrNewRequest == "new request"
ErrNoSuchKey == "NoSuchKey"
ErrS3Service == "s3 service error"
ErrUserContainerNotReachable == "user container not reachable"
ErrUserContainerResponseStatusCode == "user container response status code"
ErrUserContainerResponseMissingJSONHeader == "user container response missing json header"
ErrUserContainerResponseNotJSONDecodable == "user container response not json decodable"

VARIABLES
  s3,            \* the bucket: key -> object
  targetURLValid,\* config.TargetURL parses (fixed at construction)
  response,      \* the answer the user container has ready, where it is drawn beforehand
  command,       \* cli: the cluster command that runs ("none": no command)
  step,          \* cli: position in the command
  flags,         \* cli: the flags the command was started with
  cloud,         \* cli: what the AWS account holds for the cluster
  locals,        \* cli: local variables of the command
  calls,         \* cli: calls made to AWS and to the manager container, in order
  exitErr,       \* cli: the error the command exited with
  msgBody,       \* queue: message id -> body
  msgState,      \* queue: "visible" | "inflight" | "deleted"
  receiveCount,  \* queue: deliveries of each message so far
  pc,            \* worker: position in Handle / handleMessage
  cur,           \* worker: message being handled
  late,          \* worker: its delivery came after the payload was lost to a failed result or Completed write
  requestID,     \* worker: local requestID
  payload,       \* worker: local payload (*userPayload)
  result,        \* worker: local result of submitRequest
  fwdErr,        \* worker: error returned by submitRequest
  getErr,        \* worker: error returned by getPayload
  ret,           \* worker: value returned by Handle
  trace,         \* worker: external operations of the current invocation
  deleteFailed,  \* requestIDs whose payload deletion failed at least once
  uploadFailed,  \* requestIDs whose result upload failed at least once
  completedFailed, \* requestIDs whose Completed write failed at least once
  posts          \* user container: POSTs received so far, per X-Cortex-Request-ID

vars == <<s3, targetURLValid, response, command, step, flags, cloud, locals, calls, exitErr, msgBody, msgState, receiveCount, pc, cur, late,
          requestID, payload, result, fwdErr, getErr, ret, trace, deleteFailed,
          uploadFailed, completedFailed, posts>>

histVars == <<uploadFailed, completedFailed, posts>>
storeVars == <<s3, deleteFailed, histVars>>
queueVars == <<msgBody, msgState, receiveCount>>
cliVars == <<command, step, flags, cloud, locals, calls, exitErr>>
envVars == <<targetURLValid, response, cliVars>>
localVars == <<requestID, payload, result, fwdErr, getErr>>

Op(op, key, ok) == [op |-> op, key |-> key, ok |-> ok]
Log(w, e) == trace' = [trace EXCEPT ![w] = Append(@, e)]


\* ------------------------------------------------- S3 client (pkg/lib/aws)
\* UploadStringToS3 / UploadJSONToS3: the object is stored iff the call succeeds
PutObject(store, key, obj, ok) == IF ok THEN [store EXCEPT ![key] = obj] ELSE store
\* DeleteS3File: the object is removed iff the call succeeds
DeleteObject(store, key, ok) == IF ok THEN [store EXCEPT ![key] = NoObject] ELSE store
\* GetObject fails on a service error and on a missing key (NoSuchKey)
GetObjectOK(store, key, ok) == ok /\ store[key].exists
GetObjectError(store, key, ok) ==
  IF ~ok THEN ErrS3Service ELSE IF ~store[key].exists THEN ErrNoSuchKey ELSE NoError

\* ------------------------------------------------------- AsyncMessageHandler
\* variant: only the nil checks, an empty body is taken as a request id
unexpectedMessageNilOnly(body) == body = NilMessage \/ body = NilBody

\* Handle, lines 75-81: the message cannot name a request
unexpectedMessage(body) == body = NilMessage \/ body = NilBody \/ body = ""

\* variant: the status key is built without the request id
updateStatusWithoutID(store, id, status, ok) ==
  PutObject(store, StatusPath("", status), Object("", NoContentType), ok)

\* updateStatus: an empty object at the status key
updateStatus(store, id, status, ok) == PutObject(store, StatusPath(id, status), Object("", NoContentType), ok)

\* variant: the result is written over the payload key
uploadResultAtPayloadPath(store, id, res, ok) ==
  PutObject(store, PayloadPath(id), Object(res, "application/json"), ok)

\* uploadResult: the result as JSON at the result key
uploadResult(store, id, res, ok) == PutObject(store, ResultPath(id), Object(res, "application/json"), ok)

\* variant: the InProgress marker is cleaned up together with the payload
deletePayloadAndInProgress(store, id, ok) ==
  DeleteObject(DeleteObject(store, StatusPath(id, StatusInProgress), ok), PayloadPath(id), ok)

\* variant: the delete removes everything stored under the request's prefix
deletePayloadByPrefix(store, id, ok) ==
  IF ok THEN [k \in Keys |-> IF k[1] = id THEN NoObject ELSE store[k]] ELSE store

\* deletePayload: delete of the payload key; a failure is only logged
deletePayload(store, id, ok) == DeleteObject(store, PayloadPath(id), ok)

\* variant: the stored content type is ignored
getPayloadAsOctetStream(store, id) ==
  [Body |-> store[PayloadPath(id)].body, ContentType |-> "application/octet-stream"]

\* getPayload: the payload object with its content type, defaulted when unset
getPayload(store, id) ==
  LET output == store[PayloadPath(id)]
  IN  [Body |-> output.body,
       ContentType |-> IF output.contentType # NoContentType
                       THEN output.contentType ELSE "application/octet-stream"]
NoPayload == [Body |-> "", ContentType |-> ""]

\* strings.HasPrefix on token sequences
HasPrefix(s, prefix) ==
  Len(s) >= Len(prefix) /\ SubSeq(s, 1, Len(prefix)) = prefix

\* the request built by submitRequest (lines 174-180)
NewRequest(pl, id) ==
  [method |-> "POST", contentType |-> pl.ContentType, requestIDHeader |-> id, body |-> pl.Body]

\* variant: the content type only has to mention application/json somewhere
submitErrorContains(urlValid, outcome) ==
  IF ~urlValid THEN ErrNewRequest
  ELSE IF ~outcome.reached THEN ErrUserContainerNotReachable
  ELSE IF outcome.statusCode # StatusOK THEN ErrUserContainerResponseStatusCode
  ELSE IF \A i \in DOMAIN outcome.contentType : outcome.contentType[i] # JSONPrefix[1]
       THEN ErrUserContainerResponseMissingJSONHeader
  ELSE IF outcome.body = Undecodable THEN ErrUserContainerResponseNotJSONDecodable
  ELSE NoError

\* submitRequest, lines 183-212: the error it returns for an outcome of Do
submitError(urlValid, outcome) ==
  IF ~urlValid THEN ErrNewRequest
  ELSE IF ~outcome.reached THEN ErrUserContainerNotReachable
  ELSE IF outcome.statusCode # StatusOK THEN ErrUserContainerResponseStatusCode
  ELSE IF ~HasPrefix(outcome.contentType, JSONPrefix) THEN ErrUserContainerResponseMissingJSONHeader
  ELSE IF outcome.body = Undecodable THEN ErrUserContainerResponseNotJSONDecodable
  ELSE NoError

\* variant: the decoded value is dropped, an empty result is returned
submitRequestDroppingResult(pl, id, urlValid, outcome) ==
  LET err == submitError(urlValid, outcome)
  IN  [err |-> err,
       result |-> "",
       posted |-> urlValid,
       emitted |-> err = NoError,
       statusCode |-> outcome.statusCode]

\* variant: the event is emitted for every response received
submitRequestEmittingOnResponse(pl, id, urlValid, outcome) ==
  LET err == submitError(urlValid, outcome)
  IN  [err |-> err,
       result |-> IF err = NoError THEN outcome.body ELSE "",
       posted |-> urlValid,
       emitted |-> urlValid /\ outcome.reached,
       statusCode |-> outcome.statusCode]

\* submitRequest: (result, err), and what it did on the way
submitRequest(pl, id, urlValid, outcome) ==
  LET err == submitError(urlValid, outcome)
  IN  [err |-> err,
       result |-> IF err = NoError THEN outcome.body ELSE "",
       posted |-> urlValid,
       emitted |-> err = NoError,
       statusCode |-> outcome.statusCode]

\* variant: the forward error is wrapped and returned like the other branches do
returnAfterSubmitErrorPropagating(updateStatusOK) ==
  IF ~updateStatusOK THEN ErrUpdateFailed ELSE "failed to submit request"

\* variant: the Failed write is best-effort, nil is returned either way
returnAfterSubmitErrorBestEffort(updateStatusOK) == NoError

\* handleMessage, lines 112-116: the value returned after a failed forward
returnAfterSubmitError(updateStatusOK) ==
  IF ~updateStatusOK THEN ErrUpdateFailed ELSE NoError

\* variant: the error of the Completed write is logged and dropped
returnAfterCompletedDroppingError(updateStatusOK) == NoError

\* handleMessage, lines 127-133: the value returned after the Completed write
returnAfterCompleted(updateStatusOK) ==
  IF ~updateStatusOK THEN ErrUpdateCompleted ELSE NoError

\* variant: the deletion is not deferred, a return skips it
returnToWithoutDefer(deferred) == "returned"

\* where a return of handleMessage goes: the deferred deletePayload (line 107) runs first
returnTo(deferred) == IF deferred THEN "deletePayload" ELSE "returned"


\* ------------------------------------------------------------------- Init
\* the dequeuer runs in the cluster; no cluster command is running
NoCommand ==
  /\ command = "none"
  /\ step = "none"
  /\ flags = <<>>
  /\ cloud = <<>>
  /\ locals = <<>>
  /\ calls = <<>>
  /\ exitErr = Running

\* NewAsyncMessageHandler: a bucket holding only what the producer stored (a
\* payload per request, or none), the request ids enqueued once each, workers idle
InitWith(enqueued) ==
  /\ \E stored \in [enqueued -> PayloadObjects \cup {NoObject}] :
       s3 = [k \in Keys |->
               IF \E m \in enqueued : k = PayloadPath(RequestIDOf(m))
               THEN stored[CHOOSE m \in enqueued : k = PayloadPath(RequestIDOf(m))]
               ELSE NoObject]
  /\ targetURLValid \in BOOLEAN
  /\ response = NotReachable
  /\ NoCommand
  /\ msgBody \in {b \in [MsgIds -> Bodies] :
                    \A m \in MsgIds :
                      /\ b[m] \in RequestIDs => b[m] = RequestIDOf(m)
                      /\ m \notin enqueued => b[m] = RequestIDOf(m)}
  /\ msgState = [m \in MsgIds |-> IF m \in enqueued THEN "visible" ELSE "deleted"]
  /\ receiveCount = [m \in MsgIds |-> 0]
  /\ pc = [w \in Workers |-> "idle"]
  /\ cur = [w \in Workers |-> 1]
  /\ late = [w \in Workers |-> FALSE]
  /\ requestID = [w \in Workers |-> ""]
  /\ payload = [w \in Workers |-> NoPayload]
  /\ result = [w \in Workers |-> ""]
  /\ fwdErr = [w \in Workers |-> NoError]
  /\ getErr = [w \in Workers |-> NoError]
  /\ ret = [w \in Workers |-> Running]
  /\ trace = [w \in Workers |-> <<>>]
  /\ deleteFailed = {}
  /\ uploadFailed = {}
  /\ completedFailed = {}
  /\ posts = [r \in KeyIDs |-> 0]

\* one request on the queue, redelivered up to MaxReceive times to any worker
Init == InitWith({1})

\* a return statement of Handle / handleMessage
Return(w, err, deferred) ==
  /\ ret' = [ret EXCEPT ![w] = err]
  /\ pc' = [pc EXCEPT ![w] = returnTo(deferred)]

Goto(w, label) == pc' = [pc EXCEPT ![w] = label]

\* the consumer is done with the message: the invocation's frame is gone
Done(w) ==
  /\ Goto(w, "idle")
  /\ cur' = [cur EXCEPT ![w] = 1]
  /\ late' = [late EXCEPT ![w] = FALSE]
  /\ ret' = [ret EXCEPT ![w] = Running]
  /\ trace' = [trace EXCEPT ![w] = <<>>]
  /\ requestID' = [requestID EXCEPT ![w] = ""]
  /\ payload' = [payload EXCEPT ![w] = NoPayload]
  /\ result' = [result EXCEPT ![w] = ""]
  /\ fwdErr' = [fwdErr EXCEPT ![w] = NoError]
  /\ getErr' = [getErr EXCEPT ![w] = NoError]

\* -------------------------------------------------------------- queue side
\* deliveries made so far, over the messages in ms
RECURSIVE Deliveries(_, _)
Deliveries(count, ms) ==
  IF ms = {} THEN 0
  ELSE LET m == CHOOSE x \in ms : TRUE IN count[m] + Deliveries(count, ms \ {m})

\* the payload of request r is gone and a result upload or a Completed write
\* for r has failed: the invocation that deleted the payload returned an error
PayloadLost(r) ==
  /\ r \in RequestIDs
  /\ ~s3[PayloadPath(r)].exists
  /\ r \in uploadFailed \cup completedFailed

\* the consumer polls the queue and hands message m to Handle
Receive(w, m) ==
  /\ pc[w] = "idle"
  /\ msgState[m] = "visible"
  /\ Deliveries(receiveCount, MsgIds) < MaxReceive
  /\ msgState' = [msgState EXCEPT ![m] = "inflight"]
  /\ receiveCount' = [receiveCount EXCEPT ![m] = @ + 1]
  /\ cur' = [cur EXCEPT ![w] = m]
  /\ late' = [late EXCEPT ![w] = PayloadLost(msgBody[m])]
  /\ Goto(w, "Handle")
  /\ UNCHANGED <<storeVars, envVars, msgBody, localVars, ret, trace>>

\* the visibility timeout of a received message runs out, after the consumer
\* left it in the queue or while a worker still waits for the user container:
\* nothing bounds that wait (http.Client{} has no Timeout)
VisibilityExpire(m) ==
  /\ msgState[m] = "inflight"
  /\ \A w \in Workers : (cur[w] = m /\ pc[w] # "idle") => pc[w] = "submitRequest"
  /\ msgState' = [msgState EXCEPT ![m] = "visible"]
  /\ UNCHANGED <<storeVars, envVars, msgBody, receiveCount, pc, cur, late, localVars, ret, trace>>

\* Handle returned nil: the consumer deletes the message
Acknowledge(w) ==
  /\ pc[w] = "returned"
  /\ ret[w] = NoError
  /\ msgState' = [msgState EXCEPT ![cur[w]] = "deleted"]
  /\ Done(w)
  /\ UNCHANGED <<storeVars, envVars, msgBody, receiveCount>>

\* variant: the consumer deletes the message whatever Handle returned
LeaveForRedeliveryDeleting(w) ==
  /\ pc[w] = "returned"
  /\ ret[w] # NoError
  /\ msgState' = [msgState EXCEPT ![cur[w]] = "deleted"]
  /\ Done(w)
  /\ UNCHANGED <<storeVars, envVars, msgBody, receiveCount>>

\* Handle returned an error: the consumer logs it and leaves the message to
\* the queue, which shows it again when its visibility timeout runs out
LeaveForRedelivery(w) ==
  /\ pc[w] = "returned"
  /\ ret[w] # NoError
  /\ Done(w)
  /\ UNCHANGED <<storeVars, envVars, queueVars>>

\* ------------------------------------------------------------ handler side
\* Handle, lines 74-84
Handle(w) ==
  /\ pc[w] = "Handle"
  /\ IF unexpectedMessage(msgBody[cur[w]])
     THEN /\ Return(w, ErrUnexpected, FALSE)
          /\ UNCHANGED requestID
     ELSE /\ requestID' = [requestID EXCEPT ![w] = msgBody[cur[w]]]
          /\ Goto(w, "updateInProgress")
          /\ UNCHANGED ret
  /\ UNCHANGED <<storeVars, envVars, queueVars, cur, late, payload, result, fwdErr, getErr, trace>>

\* variant: a failed InProgress write is logged and processing goes on
MarkInProgressBestEffort(w) ==
  /\ pc[w] = "updateInProgress"
  /\ \E ok \in BOOLEAN :
       /\ s3' = updateStatus(s3, requestID[w], StatusInProgress, ok)
       /\ Log(w, Op("put", StatusPath(requestID[w], StatusInProgress), ok))
       /\ Goto(w, "getPayload")
  /\ UNCHANGED <<deleteFailed, histVars, envVars, queueVars, cur, late, localVars, ret>>

\* handleMessage, lines 94-97
MarkInProgress(w) ==
  /\ pc[w] = "updateInProgress"
  /\ \E ok \in BOOLEAN :
       /\ s3' = updateStatus(s3, requestID[w], StatusInProgress, ok)
       /\ Log(w, Op("put", StatusPath(requestID[w], StatusInProgress), ok))
       /\ IF ok THEN Goto(w, "getPayload") /\ UNCHANGED ret
                ELSE Return(w, ErrUpdateInProgress, FALSE)
  /\ UNCHANGED <<deleteFailed, histVars, envVars, queueVars, cur, late, localVars>>

\* variant: a failed fetch is tried again
FetchPayloadRetrying(w) ==
  /\ pc[w] = "getPayload"
  /\ \E ok \in BOOLEAN :
       LET found == GetObjectOK(s3, PayloadPath(requestID[w]), ok)
       IN  /\ Log(w, Op("get", PayloadPath(requestID[w]), found))
           /\ getErr' = [getErr EXCEPT ![w] = GetObjectError(s3, PayloadPath(requestID[w]), ok)]
           /\ IF found
              THEN /\ payload' = [payload EXCEPT ![w] = getPayload(s3, requestID[w])]
                   /\ Goto(w, "submitRequest")
              ELSE /\ Goto(w, "getPayload")
                   /\ UNCHANGED payload
  /\ UNCHANGED <<storeVars, envVars, queueVars, cur, late, requestID, result, fwdErr, ret>>

\* handleMessage, lines 99-100 and 107 (getPayload and the defer)
FetchPayload(w) ==
  /\ pc[w] = "getPayload"
  /\ \E ok \in BOOLEAN :
       LET found == GetObjectOK(s3, PayloadPath(requestID[w]), ok)
       IN  /\ Log(w, Op("get", PayloadPath(requestID[w]), found))
           /\ getErr' = [getErr EXCEPT ![w] = GetObjectError(s3, PayloadPath(requestID[w]), ok)]
           /\ IF found
              THEN /\ payload' = [payload EXCEPT ![w] = getPayload(s3, requestID[w])]
                   /\ Goto(w, "submitRequest")
              ELSE /\ Goto(w, "failedGetPayload")
                   /\ UNCHANGED payload
  /\ UNCHANGED <<storeVars, envVars, queueVars, cur, late, requestID, result, fwdErr, ret>>

\* variant: the return at line 105 is missing, the forward is tried without a payload
FailedAfterFetchContinuing(w) ==
  /\ pc[w] = "failedGetPayload"
  /\ \E ok \in BOOLEAN :
       /\ s3' = updateStatus(s3, requestID[w], StatusFailed, ok)
       /\ Log(w, Op("put", StatusPath(requestID[w], StatusFailed), ok))
  /\ Goto(w, "submitRequest")
  /\ UNCHANGED <<deleteFailed, histVars, envVars, queueVars, cur, late, localVars, ret>>

\* variant: a missing payload is terminal, nil is returned once Failed is written
FailedAfterFetchReturningNil(w) ==
  /\ pc[w] = "failedGetPayload"
  /\ \E ok \in BOOLEAN :
       /\ s3' = updateStatus(s3, requestID[w], StatusFailed, ok)
       /\ Log(w, Op("put", StatusPath(requestID[w], StatusFailed), ok))
       /\ Return(w, IF ok THEN NoError ELSE ErrGetPayload, FALSE)
  /\ UNCHANGED <<deleteFailed, histVars, envVars, queueVars, cur, late, localVars>>

\* variant: a failure of the Failed write replaces the fetch error
FailedAfterFetchMasking(w) ==
  /\ pc[w] = "failedGetPayload"
  /\ \E ok \in BOOLEAN :
       /\ s3' = updateStatus(s3, requestID[w], StatusFailed, ok)
       /\ Log(w, Op("put", StatusPath(requestID[w], StatusFailed), ok))
       /\ Return(w, IF ok THEN ErrGetPayload ELSE ErrUpdateFailed, FALSE)
  /\ UNCHANGED <<deleteFailed, histVars, envVars, queueVars, cur, late, localVars>>

\* handleMessage, lines 101-105: best-effort Failed marker, the fetch error is returned
FailedAfterFetch(w) ==
  /\ pc[w] = "failedGetPayload"
  /\ \E ok \in BOOLEAN :
       /\ s3' = updateStatus(s3, requestID[w], StatusFailed, ok)
       /\ Log(w, Op("put", StatusPath(requestID[w], StatusFailed), ok))
  /\ Return(w, ErrGetPayload, FALSE)
  /\ UNCHANGED <<deleteFailed, histVars, envVars, queueVars, cur, late, localVars>>

\* handleMessage, lines 109-110: submitRequest, for an outcome of httpClient.Do
ForwardOutcome(w, outcome) ==
  /\ pc[w] = "submitRequest"
  /\ LET r == submitRequest(payload[w], requestID[w], targetURLValid, outcome)
         req == NewRequest(payload[w], requestID[w])
         post == IF r.posted
                 THEN <<Op("post", <<req.requestIDHeader, req.contentType, req.body>>, outcome.reached)>>
                 ELSE <<>>
         decode == IF r.emitted THEN <<Op("decode", <<outcome.body>>, TRUE)>> ELSE <<>>
         event == IF r.emitted THEN <<Op("event", <<r.statusCode>>, TRUE)>> ELSE <<>>
     IN  /\ trace' = [trace EXCEPT ![w] = @ \o post \o decode \o event]
         /\ posts' = IF r.posted THEN [posts EXCEPT ![req.requestIDHeader] = @ + 1] ELSE posts
         /\ result' = [result EXCEPT ![w] = r.result]
         /\ fwdErr' = [fwdErr EXCEPT ![w] = r.err]
         /\ Goto(w, IF r.err # NoError THEN "failedSubmit" ELSE "uploadResult")
  /\ UNCHANGED <<s3, deleteFailed, uploadFailed, completedFailed, envVars, queueVars, cur, late,
                 requestID, payload, getErr, ret>>

\* the user container answers as it likes
Forward(w) == \E outcome \in HTTPOutcomes : ForwardOutcome(w, outcome)

\* handleMessage, lines 111-116: Failed marker, nil unless its write failed
FailedAfterForward(w) ==
  /\ pc[w] = "failedSubmit"
  /\ \E ok \in BOOLEAN :
       /\ s3' = updateStatus(s3, requestID[w], StatusFailed, ok)
       /\ Log(w, Op("put", StatusPath(requestID[w], StatusFailed), ok))
       /\ Return(w, returnAfterSubmitError(ok), TRUE)
  /\ UNCHANGED <<deleteFailed, histVars, envVars, queueVars, cur, late, localVars>>

\* variant: the Completed marker is written alongside the result, ahead of it
UploadWithCompleted(w) ==
  /\ pc[w] = "uploadResult"
  /\ \E ok \in BOOLEAN :
       /\ s3' = uploadResult(updateStatus(s3, requestID[w], StatusCompleted, ok),
                             requestID[w], result[w], ok)
       /\ trace' = [trace EXCEPT ![w] =
                      @ \o << Op("put", StatusPath(requestID[w], StatusCompleted), ok),
                              Op("put", ResultPath(requestID[w]), ok) >>]
       /\ uploadFailed' = IF ok THEN uploadFailed ELSE uploadFailed \cup {requestID[w]}
       /\ IF ok THEN Return(w, NoError, TRUE)
                ELSE Goto(w, "failedUpload") /\ UNCHANGED ret
  /\ UNCHANGED <<deleteFailed, completedFailed, posts, envVars, queueVars, cur, late, localVars>>

\* variant: a successful upload returns nil, the Completed write is left out
UploadWithoutCompleted(w) ==
  /\ pc[w] = "uploadResult"
  /\ \E ok \in BOOLEAN :
       /\ s3' = uploadResult(s3, requestID[w], result[w], ok)
       /\ Log(w, Op("put", ResultPath(requestID[w]), ok))
       /\ uploadFailed' = IF ok THEN uploadFailed ELSE uploadFailed \cup {requestID[w]}
       /\ IF ok THEN Return(w, NoError, TRUE)
                ELSE Goto(w, "failedUpload") /\ UNCHANGED ret
  /\ UNCHANGED <<deleteFailed, completedFailed, posts, envVars, queueVars, cur, late, localVars>>

\* handleMessage, line 119: uploadResult
Upload(w) ==
  /\ pc[w] = "uploadResult"
  /\ \E ok \in BOOLEAN :
       /\ s3' = uploadResult(s3, requestID[w], result[w], ok)
       /\ Log(w, Op("put", ResultPath(requestID[w]), ok))
       /\ uploadFailed' = IF ok THEN uploadFailed ELSE uploadFailed \cup {requestID[w]}
       /\ Goto(w, IF ok THEN "updateCompleted" ELSE "failedUpload")
  /\ UNCHANGED <<deleteFailed, completedFailed, posts, envVars, queueVars, cur, late, localVars, ret>>

\* variant: after a failed upload nil is returned, as after a failed forward
FailedAfterUploadReturningNil(w) ==
  /\ pc[w] = "failedUpload"
  /\ \E ok \in BOOLEAN :
       /\ s3' = updateStatus(s3, requestID[w], StatusFailed, ok)
       /\ Log(w, Op("put", StatusPath(requestID[w], StatusFailed), ok))
  /\ Return(w, NoError, TRUE)
  /\ UNCHANGED <<deleteFailed, histVars, envVars, queueVars, cur, late, localVars>>

\* handleMessage, lines 120-124: best-effort Failed marker, the upload error is returned
FailedAfterUpload(w) ==
  /\ pc[w] = "failedUpload"
  /\ \E ok \in BOOLEAN :
       /\ s3' = updateStatus(s3, requestID[w], StatusFailed, ok)
       /\ Log(w, Op("put", StatusPath(requestID[w], StatusFailed), ok))
  /\ Return(w, ErrUploadResult, TRUE)
  /\ UNCHANGED <<deleteFailed, histVars, envVars, queueVars, cur, late, localVars>>

\* variant: a failed Completed write is followed by a Failed write, as a failed upload is
MarkCompletedElseFailed(w) ==
  /\ pc[w] = "updateCompleted"
  /\ \E ok \in BOOLEAN :
       /\ s3' = updateStatus(s3, requestID[w], StatusCompleted, ok)
       /\ Log(w, Op("put", StatusPath(requestID[w], StatusCompleted), ok))
       /\ completedFailed' = IF ok THEN completedFailed ELSE completedFailed \cup {requestID[w]}
       /\ IF ok THEN Return(w, NoError, TRUE)
                ELSE Goto(w, "failedUpload") /\ UNCHANGED ret
  /\ UNCHANGED <<deleteFailed, uploadFailed, posts, envVars, queueVars, cur, late, localVars>>

\* handleMessage, lines 127-133: Completed marker
MarkCompleted(w) ==
  /\ pc[w] = "updateCompleted"
  /\ \E ok \in BOOLEAN :
       /\ s3' = updateStatus(s3, requestID[w], StatusCompleted, ok)
       /\ Log(w, Op("put", StatusPath(requestID[w], StatusCompleted), ok))
       /\ completedFailed' = IF ok THEN completedFailed ELSE completedFailed \cup {requestID[w]}
       /\ Return(w, returnAfterCompleted(ok), TRUE)
  /\ UNCHANGED <<deleteFailed, uploadFailed, posts, envVars, queueVars, cur, late, localVars>>

\* variant: a failed deletion of the payload is returned when nothing else failed
DeferredDeleteEscalating(w) ==
  /\ pc[w] = "deletePayload"
  /\ \E ok \in BOOLEAN :
       /\ s3' = deletePayload(s3, requestID[w], ok)
       /\ Log(w, Op("delete", PayloadPath(requestID[w]), ok))
       /\ deleteFailed' = IF ok THEN deleteFailed ELSE deleteFailed \cup {requestID[w]}
       /\ ret' = IF ~ok /\ ret[w] = NoError
                 THEN [ret EXCEPT ![w] = "failed to delete payload"] ELSE ret
  /\ Goto(w, "returned")
  /\ UNCHANGED <<histVars, envVars, queueVars, cur, late, localVars>>

\* the deferred deletePayload (lines 107, 164-171) runs as handleMessage returns
DeferredDelete(w) ==
  /\ pc[w] = "deletePayload"
  /\ \E ok \in BOOLEAN :
       /\ s3' = deletePayload(s3, requestID[w], ok)
       /\ Log(w, Op("delete", PayloadPath(requestID[w]), ok))
       /\ deleteFailed' = IF ok THEN deleteFailed ELSE deleteFailed \cup {requestID[w]}
  /\ Goto(w, "returned")
  /\ UNCHANGED <<histVars, envVars, queueVars, cur, late, localVars, ret>>

Next ==
  \/ \E w \in Workers, m \in MsgIds : Receive(w, m)
  \/ \E m \in MsgIds : VisibilityExpire(m)
  \/ \E w \in Workers : Acknowledge(w)
  \/ \E w \in Workers : LeaveForRedelivery(w)
  \/ \E w \in Workers : Handle(w)
  \/ \E w \in Workers : MarkInProgress(w)
  \/ \E w \in Workers : FetchPayload(w)
  \/ \E w \in Workers : FailedAfterFetch(w)
  \/ \E w \in Workers : Forward(w)
  \/ \E w \in Workers : FailedAfterForward(w)
  \/ \E w \in Workers : Upload(w)
  \/ \E w \in Workers : FailedAfterUpload(w)
  \/ \E w \in Workers : MarkCompleted(w)
  \/ \E w \in Workers : DeferredDelete(w)

Spec == Init /\ [][Next]_vars

TypeOK ==
  /\ s3 \in [Keys -> [exists : BOOLEAN, body : STRING, contentType : STRING]]
  /\ pc \in [Workers -> STRING]

\* ------------------------------------------------------------ vocabulary
Returned(w) == pc[w] = "returned"
Exists(key) == s3[key].exists
\* the external operations worker w has made in its current invocation
Ops(w) == {trace[w][i] : i \in DOMAIN trace[w]}
\* positions of the operations of worker w that satisfy Test
Puts(w, key) == {i \in DOMAIN trace[w] : trace[w][i].op = "put" /\ trace[w][i].key = key}
PutOK(w, key) == Op("put", key, TRUE) \in Ops(w)
PutFailed(w, key) == Op("put", key, FALSE) \in Ops(w)
Fetched(w) == \E i \in DOMAIN trace[w] : trace[w][i].op = "get" /\ trace[w][i].ok
\* the forward failures the design calls terminal application failures
TerminalApplicationFailures ==
  { ErrUserContainerNotReachable, ErrUserContainerResponseStatusCode,
    ErrUserContainerResponseMissingJSONHeader, ErrUserContainerResponseNotJSONDecodable }

\* ------------------------------------------------------------------ C1
\* C1 as stated: whenever Handle returns after a terminal application failure
\* of the forward (unreachable, non-200, non-JSON content type, undecodable
\* body), it returns nil and the Failed marker of the request exists.
C1_AsStated ==
  \A w \in Workers :
    (Returned(w) /\ fwdErr[w] \in TerminalApplicationFailures)
      => /\ ret[w] = NoError
         /\ Exists(StatusPath(requestID[w], StatusFailed))

\* C1 (amended): after a terminal application failure of the forward, if the
\* Failed-marker write succeeded then Handle returns nil and the Failed marker
\* exists when it returns; if that write failed Handle returns an error.
C1_FailedThenAck ==
  \A w \in Workers :
    (Returned(w) /\ fwdErr[w] \in TerminalApplicationFailures)
      => IF PutOK(w, StatusPath(requestID[w], StatusFailed))
         THEN ret[w] = NoError /\ Exists(StatusPath(requestID[w], StatusFailed))
         ELSE ret[w] # NoError

C1_Witness ==
  \E w \in Workers :
    /\ Returned(w)
    /\ fwdErr[w] = ErrUserContainerResponseStatusCode
    /\ ret[w] = NoError
    /\ Exists(StatusPath(requestID[w], StatusFailed))

\* ------------------------------------------------------------------ C2
\* C2: when Handle returns and a write of the InProgress marker, of the result,
\* of the Completed marker, or of the Failed marker after a forward failure has
\* failed in this invocation, the returned error is not nil.
InfrastructureWriteFailed(w) ==
  \/ PutFailed(w, StatusPath(requestID[w], StatusInProgress))
  \/ PutFailed(w, ResultPath(requestID[w]))
  \/ PutFailed(w, StatusPath(requestID[w], StatusCompleted))
  \/ (fwdErr[w] # NoError /\ PutFailed(w, StatusPath(requestID[w], StatusFailed)))

C2_WriteFailureIsError ==
  \A w \in Workers :
    (Returned(w) /\ InfrastructureWriteFailed(w)) => ret[w] # NoError

\* a failed Completed write, and a failed result upload with its best-effort
\* Failed marker written
C2_Witness ==
  \E w \in Workers :
    /\ Returned(w)
    /\ PutFailed(w, ResultPath(requestID[w]))
    /\ PutOK(w, StatusPath(requestID[w], StatusFailed))
    /\ ret[w] = ErrUploadResult

\* ------------------------------------------------------------------ C3
\* C3: a Completed or Failed marker exists only if the InProgress marker of the
\* same request exists, and every write of a terminal marker comes after a
\* successful InProgress write of the same invocation.
C3_InProgressFirst ==
  /\ \A r \in KeyIDs, st \in TerminalStatuses :
       Exists(StatusPath(r, st)) => Exists(StatusPath(r, StatusInProgress))
  /\ \A w \in Workers, st \in TerminalStatuses :
       \A i \in Puts(w, StatusPath(requestID[w], st)) :
         \E j \in 1..(i - 1) :
           trace[w][j] = Op("put", StatusPath(requestID[w], StatusInProgress), TRUE)

C3_Witness ==
  \E w \in Workers :
    /\ PutOK(w, StatusPath(requestID[w], StatusCompleted))
    /\ Exists(StatusPath(requestID[w], StatusInProgress))
    /\ Exists(StatusPath(requestID[w], StatusCompleted))

\* ------------------------------------------------------------------ C4
StatusKeys == {StatusPath(r, st) : r \in KeyIDs, st \in Statuses}
ResultKeys == {ResultPath(r) : r \in KeyIDs}
\* an invocation that wrote the Completed marker of r and has not returned yet
CompletedWriterInFlight(r) ==
  \E w \in Workers :
    /\ pc[w] \notin {"idle", "returned"}
    /\ requestID[w] = r
    /\ PutOK(w, StatusPath(r, StatusCompleted))

\* C4 as stated: a request with a Completed marker has a result object and,
\* once the invocation that wrote the marker has returned, no payload object.
C4_AsStated ==
  \A r \in RequestIDs :
    Exists(StatusPath(r, StatusCompleted))
      => /\ Exists(ResultPath(r))
         /\ ~CompletedWriterInFlight(r) => ~Exists(PayloadPath(r))

\* C4 (amended): a request with a Completed marker has a result object; once
\* the invocation that wrote the marker has returned its payload object is gone
\* unless a (best-effort) deletion of that payload failed.
C4_CompletedHasResult ==
  \A r \in RequestIDs :
    Exists(StatusPath(r, StatusCompleted))
      => /\ Exists(ResultPath(r))
         /\ (~CompletedWriterInFlight(r) /\ r \notin deleteFailed) => ~Exists(PayloadPath(r))

C4_Witness ==
  \E w \in Workers :
    /\ Returned(w)
    /\ PutOK(w, StatusPath(requestID[w], StatusCompleted))
    /\ Exists(StatusPath(requestID[w], StatusCompleted))
    /\ Exists(ResultPath(requestID[w]))
    /\ ~Exists(PayloadPath(requestID[w]))
    /\ requestID[w] \notin deleteFailed

\* ------------------------------------------------------------------ C5
Markers(store, r) == {st \in Statuses : store[StatusPath(r, st)].exists}

\* C5 as stated: the Completed and the Failed marker of a request never both
\* exist, and once one of them exists the markers of the request change no more.
C5_AsStated ==
  /\ [](\A r \in RequestIDs : ~(TerminalStatuses \subseteq Markers(s3, r)))
  /\ [][\A r \in RequestIDs :
          Markers(s3, r) \cap TerminalStatuses # {} => Markers(s3', r) = Markers(s3, r)]_vars

\* ------------------------------------------------------------------ C6
\* C6 as stated: no step writes the InProgress marker of a request that already
\* has a Completed or a Failed marker.
C6_AsStated ==
  [][\A w \in Workers :
       (pc[w] = "updateInProgress" /\ pc'[w] # "updateInProgress")
         => Markers(s3, requestID[w]) \cap TerminalStatuses = {}]_vars

\* ------------------------------------------------------------------ C7
\* positions of the operations worker w makes in this step
NewOps(w) == (Len(trace[w]) + 1)..Len(trace'[w])

\* C7 as stated: no write of a status marker or of a result targets a key that
\* already holds an object.
C7_AsStated ==
  [][\A w \in Workers : \A i \in NewOps(w) :
       trace'[w][i].op = "put" => ~Exists(trace'[w][i].key)]_vars

\* C7 (amended): no step deletes a status marker or a result object or changes
\* a status marker, and one invocation writes no key twice; a redelivery does
\* write again to keys that hold an object.
C7_AppendOnly ==
  [][/\ \A k \in StatusKeys : Exists(k) => s3'[k] = s3[k]
     /\ \A k \in ResultKeys : Exists(k) => s3'[k].exists
     /\ \A w \in Workers : \A i \in NewOps(w) :
          trace'[w][i].op = "put" => Puts(w, trace'[w][i].key) = {}]_vars

\* a redelivery has written the InProgress marker a second time
C7_Witness ==
  \E w \in Workers :
    /\ receiveCount[cur[w]] >= 2
    /\ PutOK(w, StatusPath(requestID[w], StatusInProgress))
    /\ Exists(StatusPath(requestID[w], StatusFailed))

\* ------------------------------------------------------------------ C8
Deletes(w) == {i \in DOMAIN trace[w] : trace[w][i].op = "delete"}

\* C8: an invocation that has not returned has attempted no payload deletion;
\* one that has returned attempted exactly one, as its last operation, if its
\* payload fetch succeeded, and none otherwise.
C8_DeleteOncePerFetch ==
  \A w \in Workers :
    /\ ~Returned(w) => Deletes(w) = {}
    /\ Returned(w) => Deletes(w) = IF Fetched(w) THEN {Len(trace[w])} ELSE {}
    /\ \A i \in Deletes(w) : trace[w][i].key = PayloadPath(requestID[w])

\* a deletion after a failed forward whose Failed write failed too
C8_Witness ==
  \E w \in Workers :
    /\ Returned(w)
    /\ Fetched(w)
    /\ ret[w] = ErrUpdateFailed
    /\ Deletes(w) = {Len(trace[w])}

\* ------------------------------------------------------------------ C9
\* the messages the claims call malformed
MalformedBodies == {NilMessage, NilBody, ""}

\* C9: an invocation on a nil message, a nil body or an empty body goes straight
\* to its return, with an 'unexpected' error and no external operation; no
\* object is stored under the empty request id.
C9_UnexpectedMessage ==
  \A w \in Workers :
    (pc[w] \notin {"idle", "Handle"} /\ msgBody[cur[w]] \in MalformedBodies)
      => /\ Returned(w)
         /\ ret[w] = ErrUnexpected
         /\ trace[w] = <<>>
         /\ \A k \in Keys : Exists(k) => (k[2] = "payload" /\ k[1] # "")

C9_Witness ==
  \E w \in Workers :
    /\ Returned(w)
    /\ msgBody[cur[w]] = ""
    /\ ret[w] = ErrUnexpected

\* ------------------------------------------------------------------ C10
\* C10 as stated: a message that is nil or has a nil or empty body is delivered
\* to the handler at most once.
C10_AsStated ==
  \A m \in MsgIds : msgBody[m] \in MalformedBodies => receiveCount[m] <= 1

\* ------------------------------------------------------------------ C11
\* C11: the step the consumer takes when Handle has returned deletes the
\* message if Handle returned nil and leaves the queue as it is if Handle
\* returned an error; either way the worker is idle again, ready for the next
\* message; and a message is deleted by no other step.
C11_AckIffNil ==
  [][/\ \A w \in Workers :
          (pc[w] = "returned" /\ pc'[w] # "returned")
            => /\ pc'[w] = "idle"
               /\ IF ret[w] = NoError
                  THEN msgState'[cur[w]] = "deleted"
                  ELSE msgState' = msgState
     /\ \A m \in MsgIds :
          (msgState[m] # "deleted" /\ msgState'[m] = "deleted")
            => \E w \in Workers :
                 /\ pc[w] = "returned" /\ pc'[w] = "idle"
                 /\ cur[w] = m /\ ret[w] = NoError]_vars

\* a message left on the queue after an error, delivered again and acknowledged
C11_Witness ==
  /\ \A w \in Workers : pc[w] = "idle"
  /\ receiveCount[1] = 2
  /\ msgState[1] = "deleted"

\* ------------------------------------------------------------------ C12
Posted(w) == \E i \in DOMAIN trace[w] : trace[w][i].op = "post"
OthersIdle(w) == \A v \in Workers \ {w} : pc[v] = "idle"

StoreWorked(w) ==
  /\ PutOK(w, StatusPath(requestID[w], StatusInProgress))
  /\ \A i \in DOMAIN trace[w] : trace[w][i].op \in {"put", "delete"} => trace[w][i].ok
  /\ getErr[w] # ErrS3Service

\* C13 as stated: once a result upload of the request has failed, a later
\* delivery during which the store works and the container answers brings the
\* request to Completed with a result object stored.
C13_AsStated ==
  \A w \in Workers :
    ( /\ Returned(w) /\ OthersIdle(w)
      /\ requestID[w] \in uploadFailed
      /\ StoreWorked(w)
      /\ fwdErr[w] = NoError )
      => /\ Exists(StatusPath(requestID[w], StatusCompleted))
         /\ Exists(ResultPath(requestID[w]))

\* ------------------------------------------------------------------ C14
\* C14 as stated: the user container receives at most one POST for a requestID.
C14_AsStated ==
  \A r \in RequestIDs : posts[r] <= 1

\* ------------------------------------------------------------------ C15
\* C15 as stated: a request with a Failed marker has no result object.
C15_AsStated ==
  \A r \in RequestIDs :
    Exists(StatusPath(r, StatusFailed)) => ~Exists(ResultPath(r))

\* ------------------------------------------------------------------ C16
\* an invocation for r is between Handle's entry and its return
InFlight(r) ==
  \E w \in Workers : pc[w] \notin {"idle", "returned"} /\ msgBody[cur[w]] = r

\* C16 as stated: when no invocation for the request is in flight, a result
\* object exists only if the Completed marker exists.
C16_AsStated ==
  \A r \in RequestIDs :
    (~InFlight(r) /\ Exists(ResultPath(r))) => Exists(StatusPath(r, StatusCompleted))

\* C16 (amended): when no invocation for the request is in flight, a result
\* object exists only if the Completed marker exists or a write of the
\* Completed marker of that request has failed; and an invocation uploads a
\* result only after a successful forward.
C16_ResultOnlyBeforeCompleted ==
  /\ \A r \in RequestIDs :
       (~InFlight(r) /\ Exists(ResultPath(r)))
         => (Exists(StatusPath(r, StatusCompleted)) \/ r \in completedFailed)
  /\ \A w \in Workers :
       Puts(w, ResultPath(requestID[w])) # {} => (fwdErr[w] = NoError /\ Posted(w))

\* the result is stored, the Completed write failed and Handle has returned
C16_Witness ==
  \E w \in Workers :
    /\ Returned(w) /\ OthersIdle(w)
    /\ PutOK(w, ResultPath(requestID[w]))
    /\ PutFailed(w, StatusPath(requestID[w], StatusCompleted))
    /\ Exists(ResultPath(requestID[w]))
    /\ ~Exists(StatusPath(requestID[w], StatusCompleted))

\* ------------------------------------------------------------------ C17
\* worker w is inside Handle
Handling(w) == pc[w] \notin {"idle", "returned"}

\* C17 as stated: two invocations of Handle for the same requestID are never
\* in flight at the same time.
C17_AsStated ==
  \A w, v \in Workers :
    (w # v /\ Handling(w) /\ Handling(v)) => msgBody[cur[w]] # msgBody[cur[v]]

\* ------------------------------------------------------------------ C18
\* the values worker w decoded from responses, and the events it emitted
Decoded(w) == {trace[w][i].key[1] : i \in {j \in DOMAIN trace[w] : trace[w][j].op = "decode"}}
Events(w) == {i \in DOMAIN trace[w] : trace[w][i].op = "event"}
\* InProgress write, payload fetch, forward, result upload and Completed
\* write of the invocation of worker w all succeeded
HappyPath(w) ==
  /\ PutOK(w, StatusPath(requestID[w], StatusInProgress))
  /\ Fetched(w)
  /\ Posted(w) /\ fwdErr[w] = NoError
  /\ PutOK(w, ResultPath(requestID[w]))
  /\ PutOK(w, StatusPath(requestID[w], StatusCompleted))
\* what a returned happy-path invocation has done, the payload and the stored
\* result left aside
HappyPathOutcome(w) ==
  /\ ret[w] = NoError
  /\ \A i \in Puts(w, StatusPath(requestID[w], StatusInProgress)) :
       \A j \in Puts(w, StatusPath(requestID[w], StatusCompleted)) : i < j
  /\ Puts(w, StatusPath(requestID[w], StatusFailed)) = {}
  /\ Cardinality(Events(w)) = 1
  /\ \A i \in Events(w) : trace[w][i].key = <<StatusOK>>

\* C18 as stated: a happy-path invocation returns nil, writes InProgress before
\* Completed and no Failed marker, emits exactly one event with status 200, and
\* when it has returned the stored result is the decoded value and the payload
\* object is absent.
C18_AsStated ==
  \A w \in Workers :
    (Returned(w) /\ HappyPath(w))
      => /\ HappyPathOutcome(w)
         /\ Decoded(w) = {s3[ResultPath(requestID[w])].body}
         /\ ~Exists(PayloadPath(requestID[w]))

\* C18 (amended): a happy-path invocation returns nil, writes InProgress before
\* Completed and no Failed marker, emits exactly one event with status 200,
\* stores at the result key the value it decoded, and ends with one attempt to
\* delete the payload; the payload is absent afterwards if that attempt succeeded.
C18_HappyPath ==
  /\ [](\A w \in Workers :
          (Returned(w) /\ HappyPath(w))
            => /\ HappyPathOutcome(w)
               /\ Decoded(w) = {result[w]}
               /\ Deletes(w) = {Len(trace[w])}
               /\ trace[w][Len(trace[w])].ok => ~Exists(PayloadPath(requestID[w])))
  /\ [][\A w \in Workers :
          (pc[w] = "uploadResult" /\ pc'[w] = "updateCompleted")
            => /\ s3'[ResultPath(requestID[w])].exists
               /\ Decoded(w) = {s3'[ResultPath(requestID[w])].body}]_vars

\* a happy-path invocation has returned, its result is stored, its payload gone
C18_Witness ==
  \E w \in Workers :
    /\ Returned(w) /\ HappyPath(w)
    /\ ret[w] = NoError
    /\ Exists(StatusPath(requestID[w], StatusCompleted))
    /\ Decoded(w) = {s3[ResultPath(requestID[w])].body}
    /\ ~Exists(PayloadPath(requestID[w]))

\* ------------------------------------------------------------------ C19
\* the invocation of worker w tried to fetch the payload and failed
FetchFailed(w) ==
  \E i \in DOMAIN trace[w] : trace[w][i].op = "get" /\ ~trace[w][i].ok

\* C19: an invocation whose payload fetch failed has, when it returns, made
\* exactly three operations (the InProgress write, the fetch, one write of the
\* Failed marker that may fail) and returns the fetch error; if the Failed
\* write succeeded, the InProgress and the Failed marker both exist.
C19_FetchFailure ==
  \A w \in Workers :
    (Returned(w) /\ FetchFailed(w))
      => /\ \E ok \in BOOLEAN :
              trace[w] = << Op("put", StatusPath(requestID[w], StatusInProgress), TRUE),
                            Op("get", PayloadPath(requestID[w]), FALSE),
                            Op("put", StatusPath(requestID[w], StatusFailed), ok) >>
         /\ ret[w] = ErrGetPayload
         /\ PutOK(w, StatusPath(requestID[w], StatusFailed))
              => /\ Exists(StatusPath(requestID[w], StatusInProgress))
                 /\ Exists(StatusPath(requestID[w], StatusFailed))

\* the payload is absent, the fetch failed and so did the Failed write
C19_Witness ==
  \E w \in Workers :
    /\ Returned(w) /\ FetchFailed(w)
    /\ getErr[w] = ErrNoSuchKey
    /\ PutFailed(w, StatusPath(requestID[w], StatusFailed))
    /\ ret[w] = ErrGetPayload

\* ------------------------------------------------------------------ C20
\* C20: an invocation whose InProgress write failed returns that error and
\* has made no other operation; its request has no terminal marker from it.
C20_InProgressFailure ==
  \A w \in Workers :
    (Returned(w) /\ PutFailed(w, StatusPath(requestID[w], StatusInProgress)))
      => /\ trace[w] = << Op("put", StatusPath(requestID[w], StatusInProgress), FALSE) >>
         /\ ret[w] = ErrUpdateInProgress

\* the InProgress write failed on the first delivery: nothing is stored for
\* the request but what the producer left
C20_Witness ==
  \E w \in Workers :
    /\ Returned(w)
    /\ PutFailed(w, StatusPath(requestID[w], StatusInProgress))
    /\ ret[w] = ErrUpdateInProgress
    /\ Markers(s3, requestID[w]) = {}

\* ------------------------------------------------------------------ C21
\* C21: when Handle returns after submitRequest gave an error, it returns nil
\* if the Failed write of this invocation succeeded and the error of that write
\* if it failed; where it returns nil the Failed marker of the request exists.
C21_NilIffFailedWritten ==
  \A w \in Workers :
    (Returned(w) /\ fwdErr[w] # NoError)
      => /\ ret[w] = NoError <=> PutOK(w, StatusPath(requestID[w], StatusFailed))
         /\ ret[w] # NoError <=> PutFailed(w, StatusPath(requestID[w], StatusFailed))
         /\ ret[w] \in {NoError, ErrUpdateFailed}
         /\ ret[w] = NoError => Exists(StatusPath(requestID[w], StatusFailed))

\* the request could not be built and the Failed write failed as well
C21_Witness ==
  \E w \in Workers :
    /\ Returned(w)
    /\ fwdErr[w] = ErrNewRequest
    /\ PutFailed(w, StatusPath(requestID[w], StatusFailed))
    /\ ret[w] = ErrUpdateFailed

\* ------------------------------------------------------------------ C22
\* C22: an invocation has emitted one event if its forward succeeded and none
\* otherwise; after a successful forward the value Handle returns is decided
\* by the result upload and the Completed write alone.
C22_OneEventPerSuccess ==
  \A w \in Workers :
    /\ Cardinality(Events(w)) = IF Posted(w) /\ fwdErr[w] = NoError THEN 1 ELSE 0
    /\ (Returned(w) /\ Events(w) # {})
         => ret[w] = IF PutFailed(w, ResultPath(requestID[w])) THEN ErrUploadResult
                     ELSE IF PutFailed(w, StatusPath(requestID[w], StatusCompleted))
                          THEN ErrUpdateCompleted
                     ELSE NoError

\* a response that is not JSON-decodable: the POST was made, no event emitted
C22_Witness ==
  \E w \in Workers :
    /\ Returned(w)
    /\ Posted(w)
    /\ fwdErr[w] = ErrUserContainerResponseNotJSONDecodable
    /\ Events(w) = {}

\* ------------------------------------------------------------------ C23
\* C23: the step that deletes the payload leaves Handle's return value, the
\* status markers and the results as they are, whether the deletion succeeds
\* or fails, and Handle returns right after it.
C23_DeleteNeverEscalates ==
  [][\A w \in Workers :
       pc[w] = "deletePayload"
         => /\ pc'[w] \in {"deletePayload", "returned"}
            /\ ret'[w] = ret[w]
            /\ pc'[w] = "returned"
                 => /\ \A k \in StatusKeys \cup ResultKeys : s3'[k] = s3[k]
                    /\ Len(trace'[w]) = Len(trace[w]) + 1]_vars

\* the deletion failed after the Completed write: Handle still returned nil
C23_Witness ==
  \E w \in Workers :
    /\ Returned(w)
    /\ Op("delete", PayloadPath(requestID[w]), FALSE) \in Ops(w)
    /\ PutOK(w, StatusPath(requestID[w], StatusCompleted))
    /\ ret[w] = NoError

\* ------------------------------------------------------------------ C24
\* the place of an operation in the sequence InProgress write, payload fetch,
\* forward, result upload, Completed write, payload deletion (0: none of them)
StepRank(w, o) ==
  IF o.op = "put" /\ o.key = StatusPath(requestID[w], StatusInProgress) THEN 1
  ELSE IF o.op = "get" THEN 2
  ELSE IF o.op = "post" THEN 3
  ELSE IF o.op = "put" /\ o.key = ResultPath(requestID[w]) THEN 4
  ELSE IF o.op = "put" /\ o.key = StatusPath(requestID[w], StatusCompleted) THEN 5
  ELSE IF o.op = "delete" THEN 6
  ELSE 0
\* the writes of status markers among the operations worker w makes in this step
NewMarkerWrites(w) ==
  {i \in NewOps(w) : trace'[w][i].op = "put" /\ trace'[w][i].key \in StatusKeys}

\* C24: the operations of one invocation come in the order InProgress write,
\* payload fetch, forward, result upload, Completed write, payload deletion,
\* each at most once and each only after a successful previous one (the
\* deletion needs only the fetch); no step of an invocation makes two writes
\* of status markers, and no step is taken by two invocations.
C24_StrictSequence ==
  /\ [](\A w \in Workers : \A j \in DOMAIN trace[w] :
          LET rank == StepRank(w, trace[w][j])
          IN  /\ \A i \in 1..(j - 1) :
                   StepRank(w, trace[w][i]) # 0 /\ rank # 0
                     => StepRank(w, trace[w][i]) < rank
              /\ rank \in 2..5
                   => \E i \in 1..(j - 1) :
                        StepRank(w, trace[w][i]) = rank - 1 /\ trace[w][i].ok
              /\ rank = 6
                   => \E i \in 1..(j - 1) : StepRank(w, trace[w][i]) = 2 /\ trace[w][i].ok)
  /\ [][/\ \A w \in Workers : Cardinality(NewMarkerWrites(w)) <= 1
        /\ \A w, v \in Workers : (NewOps(w) # {} /\ NewOps(v) # {}) => w = v]_vars

\* all six steps were made
C24_Witness ==
  \E w \in Workers :
    /\ Returned(w)
    /\ 1..6 \subseteq {StepRank(w, o) : o \in Ops(w)}

\* ------------------------------------------------- the forward on its own
\* an invocation has written InProgress and fetched the payload of request 1;
\* the answer the user container will give is drawn beforehand
InitForward ==
  /\ \E stored \in PayloadObjects :
       s3 = updateStatus([k \in Keys |-> IF k = PayloadPath(RequestIDOf(1)) THEN stored ELSE NoObject],
                         RequestIDOf(1), StatusInProgress, TRUE)
  /\ targetURLValid \in BOOLEAN
  /\ response \in HTTPOutcomes
  /\ NoCommand
  /\ msgBody = [m \in MsgIds |-> RequestIDOf(m)]
  /\ msgState = [m \in MsgIds |-> IF m = 1 THEN "inflight" ELSE "deleted"]
  /\ receiveCount = [m \in MsgIds |-> IF m = 1 THEN 1 ELSE 0]
  /\ \E h \in Workers :
       /\ pc = [w \in Workers |-> IF w = h THEN "submitRequest" ELSE "idle"]
       /\ requestID = [w \in Workers |-> IF w = h THEN RequestIDOf(1) ELSE ""]
       /\ payload = [w \in Workers |-> IF w = h THEN getPayload(s3, RequestIDOf(1)) ELSE NoPayload]
       /\ trace = [w \in Workers |->
                     IF w = h
                     THEN << Op("put", StatusPath(RequestIDOf(1), StatusInProgress), TRUE),
                             Op("get", PayloadPath(RequestIDOf(1)), TRUE) >>
                     ELSE <<>>]
  /\ cur = [w \in Workers |-> 1]
  /\ late = [w \in Workers |-> FALSE]
  /\ result = [w \in Workers |-> ""]
  /\ fwdErr = [w \in Workers |-> NoError]
  /\ getErr = [w \in Workers |-> NoError]
  /\ ret = [w \in Workers |-> Running]
  /\ deleteFailed = {}
  /\ uploadFailed = {}
  /\ completedFailed = {}
  /\ posts = [r \in KeyIDs |-> 0]

\* the user container gives the answer drawn beforehand
ForwardDrawn(w) == ForwardOutcome(w, response)

NextForward ==
  \/ \E w \in Workers : ForwardDrawn(w)
  \/ \E w \in Workers : FailedAfterForward(w)
  \/ \E w \in Workers : Upload(w)
  \/ \E w \in Workers : FailedAfterUpload(w)
  \/ \E w \in Workers : MarkCompleted(w)
  \/ \E w \in Workers : DeferredDelete(w)

ForwardSpec == InitForward /\ [][NextForward]_vars

\* ------------------------------------------------------------------ C25
\* the answers the claims call a success: 200, a content type that starts
\* with application/json, a body that decodes
SuccessfulResponses ==
  {o \in HTTPOutcomes :
     /\ o.reached
     /\ o.statusCode = 200
     /\ o.contentType # <<>> /\ Head(o.contentType) = "application/json"
     /\ o.body \in JSONValues}

\* C25: once the POST was made, the forward has succeeded exactly if the answer
\* was a successful response, and then the result is its decoded body; after
\* any other answer the error is a terminal application failure, there is no
\* result, and the invocation uploads none.
C25_SuccessClassification ==
  \A w \in Workers :
    Posted(w)
      => IF response \in SuccessfulResponses
         THEN fwdErr[w] = NoError /\ result[w] = response.body
         ELSE /\ fwdErr[w] \in TerminalApplicationFailures
              /\ result[w] = ""
              /\ Puts(w, ResultPath(requestID[w])) = {}
              /\ Returned(w) => ~Exists(ResultPath(requestID[w]))

\* 200 with a content type that mentions application/json, but not first
C25_Witness ==
  \E w \in Workers :
    /\ Returned(w)
    /\ Posted(w)
    /\ response.statusCode = 200
    /\ response.contentType = <<"text/plain", "application/json">>
    /\ response.body \in JSONValues
    /\ fwdErr[w] = ErrUserContainerResponseMissingJSONHeader

\* ------------------------------------------------------------------ C26
\* the content type a request for the stored payload object must carry
ForwardedContentType(object) ==
  IF object.contentType = NoContentType THEN "application/octet-stream" ELSE object.contentType

\* C26: a successful fetch hands on the body of the stored payload and its
\* content type, application/octet-stream if it has none; the invocation keeps
\* them until the forward, and the POST carries the message body as request
\* id, that content type and that body.
C26_ForwardedRequest ==
  [][\A w \in Workers :
       /\ (pc[w] = "getPayload" /\ pc'[w] = "submitRequest")
            => /\ payload'[w].Body = s3[PayloadPath(msgBody[cur[w]])].body
               /\ payload'[w].ContentType
                    = ForwardedContentType(s3[PayloadPath(msgBody[cur[w]])])
       /\ (pc[w] = "submitRequest" /\ pc'[w] = "submitRequest") => payload'[w] = payload[w]
       /\ (pc[w] = "submitRequest" /\ pc'[w] # "submitRequest")
            => \A i \in NewOps(w) :
                 trace'[w][i].op = "post"
                   => trace'[w][i].key
                        = <<msgBody[cur[w]], payload[w].ContentType, payload[w].Body>>]_vars

\* a payload stored without content type was posted as application/octet-stream
C26_Witness ==
  \E w \in Workers :
    /\ Exists(PayloadPath(requestID[w]))
    /\ s3[PayloadPath(requestID[w])].contentType = NoContentType
    /\ \E i \in DOMAIN trace[w] :
         /\ trace[w][i].op = "post"
         /\ trace[w][i].key = <<msgBody[cur[w]], "application/octet-stream",
                                s3[PayloadPath(requestID[w])].body>>

\* ------------------------------------------------------------------ C27
\* C27: an object disappears from the bucket only in the payload deletion of an
\* invocation, and it is the payload of the message that invocation handles;
\* every delete an invocation issues is on that key.
C27_DeletesOnlyPayload ==
  [][/\ \A k \in Keys :
          (s3[k].exists /\ ~s3'[k].exists)
            => \E w \in Workers :
                 /\ pc[w] = "deletePayload"
                 /\ k = PayloadPath(msgBody[cur[w]])
     /\ \A w \in Workers : \A i \in NewOps(w) :
          trace'[w][i].op = "delete"
            => trace'[w][i].key = PayloadPath(msgBody[cur[w]])]_vars

\* the payload was deleted; the markers and the result are all there
C27_Witness ==
  \E w \in Workers :
    /\ Returned(w)
    /\ Op("delete", PayloadPath(requestID[w]), TRUE) \in Ops(w)
    /\ ~Exists(PayloadPath(requestID[w]))
    /\ Markers(s3, requestID[w]) = {StatusInProgress, StatusCompleted}
    /\ Exists(ResultPath(requestID[w]))

\* ------------------------------------------------------------------ C28
\* C28: an invocation that returns nil has itself written the Completed or the
\* Failed marker of the message's request with success; and a message leaves
\* the queue only while its request, a non-empty id, has a terminal marker.
C28_AckSafety ==
  /\ [](\A w \in Workers :
          (Returned(w) /\ ret[w] = NoError)
            => /\ msgBody[cur[w]] \in RequestIDs
               /\ \E st \in TerminalStatuses : PutOK(w, StatusPath(msgBody[cur[w]], st)))
  /\ [][\A m \in MsgIds :
          (msgState[m] # "deleted" /\ msgState'[m] = "deleted")
            => /\ msgBody[m] \in RequestIDs
               /\ Markers(s3, msgBody[m]) \cap TerminalStatuses # {}]_vars

\* the message has left the queue, its request is Completed
C28_Witness ==
  /\ msgState[1] = "deleted"
  /\ receiveCount[1] >= 1
  /\ StatusCompleted \in Markers(s3, msgBody[1])

\* ------------------------------------------------------------------ C29
\* C29 as stated: a delivery received after the payload was deleted by an
\* invocation that returned the error of a result upload or of a Completed
\* write fails at the payload fetch: when it returns it has written the Failed
\* marker, has not called the user container, and returns an error.
C29_AsStated ==
  \A w \in Workers :
    (late[w] /\ Returned(w))
      => /\ FetchFailed(w)
         /\ PutOK(w, StatusPath(requestID[w], StatusFailed))
         /\ ~Posted(w)
         /\ ret[w] # NoError

\* C29 (amended): such a delivery never gets the payload, never calls the user
\* container and never returns nil, so its step back to the consumer leaves the
\* message in the queue; it returns the error of its InProgress write if that
\* write failed, and otherwise the fetch error after one attempt to write the
\* Failed marker.
C29_LateDeliveryFails ==
  /\ [](\A w \in Workers :
          late[w]
            => /\ ~Fetched(w) /\ ~Posted(w)
               /\ ret[w] # NoError
               /\ Returned(w)
                    => IF PutOK(w, StatusPath(requestID[w], StatusInProgress))
                       THEN /\ FetchFailed(w)
                            /\ Cardinality(Puts(w, StatusPath(requestID[w], StatusFailed))) = 1
                            /\ ret[w] = ErrGetPayload
                       ELSE ret[w] = ErrUpdateInProgress)
  /\ [][\A w \in Workers :
          (late[w] /\ pc[w] = "returned" /\ pc'[w] # "returned")
            => msgState'[cur[w]] = msgState[cur[w]]]_vars

\* a delivery after the loss of the payload has failed at the fetch and written Failed
C29_Witness ==
  \E w \in Workers :
    /\ late[w]
    /\ Returned(w)
    /\ FetchFailed(w)
    /\ PutOK(w, StatusPath(requestID[w], StatusFailed))
    /\ ret[w] = ErrGetPayload

\* ------------------------------------------------------------------ C30
\* the writes of the Completed or the Failed marker worker w has attempted
TerminalWrites(w) ==
  {i \in DOMAIN trace[w] :
     /\ trace[w][i].op = "put"
     /\ \E st \in TerminalStatuses : trace[w][i].key = StatusPath(msgBody[cur[w]], st)}

\* C30: the first operation of an invocation is a write of the InProgress
\* marker, and it has made exactly one such write once it is past that step;
\* it attempts at most one write of a terminal marker.
C30_OneInProgressOneTerminal ==
  \A w \in Workers :
    /\ trace[w] # <<>>
         => /\ trace[w][1].op = "put"
            /\ trace[w][1].key = StatusPath(msgBody[cur[w]], StatusInProgress)
    /\ (pc[w] \notin {"idle", "Handle", "updateInProgress"} /\ msgBody[cur[w]] \in RequestIDs)
         => Puts(w, StatusPath(msgBody[cur[w]], StatusInProgress)) = {1}
    /\ Cardinality(TerminalWrites(w)) <= 1

\* the Completed write failed: no Failed write follows it
C30_Witness ==
  \E w \in Workers :
    /\ Returned(w)
    /\ PutFailed(w, StatusPath(requestID[w], StatusCompleted))
    /\ Cardinality(TerminalWrites(w)) = 1
    /\ Puts(w, StatusPath(requestID[w], StatusInProgress)) = {1}

\* ------------------------------------------------- two requests side by side
\* the two messages carry different request ids and are each in the hands of
\* one worker, whose invocations interleave; a payload is stored for each
\* request, or none
InitPair ==
  /\ \E stored \in [MsgIds -> PayloadObjects \cup {NoObject}] :
       s3 = [k \in Keys |->
               IF \E m \in MsgIds : k = PayloadPath(RequestIDOf(m))
               THEN stored[CHOOSE m \in MsgIds : k = PayloadPath(RequestIDOf(m))]
               ELSE NoObject]
  /\ targetURLValid = TRUE
  /\ response = NotReachable
  /\ NoCommand
  /\ msgBody = [m \in MsgIds |-> RequestIDOf(m)]
  /\ msgState = [m \in MsgIds |-> "inflight"]
  /\ receiveCount = [m \in MsgIds |-> 1]
  /\ cur \in {h \in [Workers -> MsgIds] : \A w, v \in Workers : h[w] = h[v] => w = v}
  /\ pc = [w \in Workers |-> "Handle"]
  /\ late = [w \in Workers |-> FALSE]
  /\ requestID = [w \in Workers |-> ""]
  /\ payload = [w \in Workers |-> NoPayload]
  /\ result = [w \in Workers |-> ""]
  /\ fwdErr = [w \in Workers |-> NoError]
  /\ getErr = [w \in Workers |-> NoError]
  /\ ret = [w \in Workers |-> Running]
  /\ trace = [w \in Workers |-> <<>>]
  /\ deleteFailed = {}
  /\ uploadFailed = {}
  /\ completedFailed = {}
  /\ posts = [r \in KeyIDs |-> 0]

\* one invocation per message, no redelivery
NextPair ==
  \/ \E w \in Workers : Acknowledge(w)
  \/ \E w \in Workers : LeaveForRedelivery(w)
  \/ \E w \in Workers : Handle(w)
  \/ \E w \in Workers : MarkInProgress(w)
  \/ \E w \in Workers : FetchPayload(w)
  \/ \E w \in Workers : FailedAfterFetch(w)
  \/ \E w \in Workers : Forward(w)
  \/ \E w \in Workers : FailedAfterForward(w)
  \/ \E w \in Workers : Upload(w)
  \/ \E w \in Workers : FailedAfterUpload(w)
  \/ \E w \in Workers : MarkCompleted(w)
  \/ \E w \in Workers : DeferredDelete(w)

PairSpec == InitPair /\ [][NextPair]_vars

\* ------------------------------------------------------------------ C31
\* C31: every object-store operation of an invocation is on a key of the
\* request id its message carries, and a step of an invocation changes no
\* object stored under another request id.
C31_RequestsIndependent ==
  /\ [](\A w \in Workers : \A i \in DOMAIN trace[w] :
          trace[w][i].op \in {"put", "get", "delete"}
            => trace[w][i].key[1] = msgBody[cur[w]])
  /\ [][\A k \in Keys :
          s3'[k] # s3[k]
            => \E w \in Workers : pc'[w] # pc[w] /\ k[1] = msgBody[cur[w]]]_vars

\* the two invocations ran side by side; one request is Completed with its
\* payload deleted, the other Failed
C31_Witness ==
  \E w, v \in Workers :
    /\ Returned(w) /\ Returned(v)
    /\ msgBody[cur[w]] # msgBody[cur[v]]
    /\ Op("delete", PayloadPath(msgBody[cur[w]]), TRUE) \in Ops(w)
    /\ Markers(s3, msgBody[cur[w]]) = {StatusInProgress, StatusCompleted}
    /\ Markers(s3, msgBody[cur[v]]) = {StatusInProgress, StatusFailed}

\* ------------------------------------------------------------------ C32
\* how far an invocation has come
PcRank(label) ==
  CASE label = "idle" -> 0
    [] label = "Handle" -> 1
    [] label = "updateInProgress" -> 2
    [] label = "getPayload" -> 3
    [] label \in {"failedGetPayload", "submitRequest"} -> 4
    [] label \in {"failedSubmit", "uploadResult"} -> 5
    [] label \in {"failedUpload", "updateCompleted"} -> 6
    [] label = "deletePayload" -> 7
    [] label = "returned" -> 8
\* the calls to the object store and to the user container worker w has made
ExternalOps(w) == {i \in DOMAIN trace[w] : trace[w][i].op \in {"put", "get", "post", "delete"}}

\* C32: an invocation makes at most six external calls; every step it takes
\* brings it nearer to its return, so that it returns after at most seven
\* steps if each call returns; and it leaves the forward only by an outcome of
\* the HTTP call (or because the request could not be built), there being no
\* timeout.
C32_Terminates ==
  /\ [](\A w \in Workers : Cardinality(ExternalOps(w)) <= 6)
  /\ [][\A w \in Workers :
          /\ (pc[w] \notin {"idle", "returned"} /\ (pc'[w] # pc[w] \/ trace'[w] # trace[w]))
               => PcRank(pc'[w]) > PcRank(pc[w])
          /\ (pc[w] = "submitRequest" /\ pc'[w] # "submitRequest")
               => \/ fwdErr'[w] = ErrNewRequest
                  \/ \E i \in NewOps(w) : trace'[w][i].op = "post"]_vars

\* an invocation has returned after six calls
C32_Witness ==
  \E w \in Workers :
    /\ Returned(w)
    /\ Cardinality(ExternalOps(w)) = 6

\* =====================================================================
\* The cluster commands of the CLI: cluster up, cluster scale, cluster down
\* (src/unnamed/part_000).  One command runs per behaviour; every call to
\* AWS, to the prompt or to the manager container is a step whose outcome
\* the environment picks, and is logged in calls.
\* =====================================================================
MaxNodeGroups == 2
InstancesBound == 1

\* the statuses clusterstate.GetClusterState reports, by the names of package clusterstate
ClusterStatuses ==
  {"StatusNotFound", "StatusCreateComplete", "StatusUpdateComplete", "StatusUpdateRollbackComplete",
   "StatusDeleteComplete", "StatusCreateFailed", "StatusDeleteFailed"}

\* a *int64 flag: <<>> is nil, <<v>> points to v
NilInt == <<>>

\* node groups of a cluster config; a nil entry of the slice is NilNodeGroup
NilNodeGroup == [Name |-> "<nil>", MinInstances |-> 0, MaxInstances |-> 0]
NodeGroups ==
  {ng \in [Name : {"ng-a", "ng-b"}, MinInstances : 0..InstancesBound, MaxInstances : 0..InstancesBound] :
     ng.MinInstances <= ng.MaxInstances}
RECURSIVE SeqsUpTo(_, _)
SeqsUpTo(S, n) ==
  IF n = 0 THEN {<<>>}
  ELSE LET shorter == SeqsUpTo(S, n - 1)
       IN shorter \cup {Append(q, x) : q \in {p \in shorter : Len(p) = n - 1}, x \in S}
ClusterConfigs == SeqsUpTo(NodeGroups \cup {NilNodeGroup}, MaxNodeGroups)
EmptyConfig == <<>>
DesiredInstances == {NilInt} \cup {<<v>> : v \in -1..InstancesBound}

\* updateNodeGroupScale with the node group written before the bounds are validated
updateNodeGroupScaleWritingFirst(clusterConfig, targetNg, desiredMinReplicas, desiredMaxReplicas, disallowPrompt, yes) ==
  LET matches == {i \in DOMAIN clusterConfig :
                    clusterConfig[i] # NilNodeGroup /\ clusterConfig[i].Name = targetNg}
  IN IF matches = {}
     THEN [outcome |-> "return", config |-> EmptyConfig, index |-> 0,
           err |-> "ErrorNodeGroupNotFound", nodeGroups |-> clusterConfig]
     ELSE LET idx == CHOOSE i \in matches : \A j \in matches : i <= j
              ng == clusterConfig[idx]
              minReplicas == IF desiredMinReplicas = NilInt THEN ng.MinInstances ELSE desiredMinReplicas[1]
              maxReplicas == IF desiredMaxReplicas = NilInt THEN ng.MaxInstances ELSE desiredMaxReplicas[1]
              updated == [clusterConfig EXCEPT ![idx].MinInstances = minReplicas,
                                               ![idx].MaxInstances = maxReplicas]
              rejected(e) == [outcome |-> "return", config |-> EmptyConfig, index |-> 0,
                              err |-> e, nodeGroups |-> updated]
          IN IF minReplicas < 0 THEN rejected("ErrorMinInstancesLowerThan")
             ELSE IF maxReplicas < 0 THEN rejected("ErrorMaxInstancesLowerThan")
             ELSE IF minReplicas > maxReplicas THEN rejected("ErrorMinInstancesGreaterThanMaxInstances")
             ELSE IF ng.MinInstances = minReplicas /\ ng.MaxInstances = maxReplicas
               THEN [outcome |-> "exit", config |-> EmptyConfig, index |-> 0,
                     err |-> NoError, nodeGroups |-> clusterConfig]
             ELSE IF ~disallowPrompt /\ ~yes
               THEN [outcome |-> "exit", config |-> EmptyConfig, index |-> 0,
                     err |-> NoError, nodeGroups |-> clusterConfig]
             ELSE [outcome |-> "return", config |-> updated, index |-> idx - 1,
                   err |-> NoError, nodeGroups |-> updated]

\* updateNodeGroupScale with the last node group of the target name scaled
updateNodeGroupScaleLastMatch(clusterConfig, targetNg, desiredMinReplicas, desiredMaxReplicas, disallowPrompt, yes) ==
  LET matches == {i \in DOMAIN clusterConfig :
                    clusterConfig[i] # NilNodeGroup /\ clusterConfig[i].Name = targetNg}
  IN IF matches = {}
     THEN [outcome |-> "return", config |-> EmptyConfig, index |-> 0,
           err |-> "ErrorNodeGroupNotFound", nodeGroups |-> clusterConfig]
     ELSE LET idx == CHOOSE i \in matches : \A j \in matches : i <= j
              last == CHOOSE i \in matches : \A j \in matches : i >= j
              ng == clusterConfig[idx]
              minReplicas == IF desiredMinReplicas = NilInt THEN ng.MinInstances ELSE desiredMinReplicas[1]
              maxReplicas == IF desiredMaxReplicas = NilInt THEN ng.MaxInstances ELSE desiredMaxReplicas[1]
              updated == [clusterConfig EXCEPT ![last].MinInstances = minReplicas,
                                               ![last].MaxInstances = maxReplicas]
              rejected(e) == [outcome |-> "return", config |-> EmptyConfig, index |-> 0,
                              err |-> e, nodeGroups |-> clusterConfig]
          IN IF minReplicas < 0 THEN rejected("ErrorMinInstancesLowerThan")
             ELSE IF maxReplicas < 0 THEN rejected("ErrorMaxInstancesLowerThan")
             ELSE IF minReplicas > maxReplicas THEN rejected("ErrorMinInstancesGreaterThanMaxInstances")
             ELSE IF ng.MinInstances = minReplicas /\ ng.MaxInstances = maxReplicas
               THEN [outcome |-> "exit", config |-> EmptyConfig, index |-> 0,
                     err |-> NoError, nodeGroups |-> clusterConfig]
             ELSE IF ~disallowPrompt /\ ~yes
               THEN [outcome |-> "exit", config |-> EmptyConfig, index |-> 0,
                     err |-> NoError, nodeGroups |-> clusterConfig]
             ELSE [outcome |-> "return", config |-> updated, index |-> idx - 1,
                   err |-> NoError, nodeGroups |-> updated]

\* updateNodeGroupScale: the first non-nil node group named targetNg gets the
\* desired bounds (a nil bound keeps the current value).  outcome "return":
\* the function returned (config, index, err); outcome "exit": exit.Ok()
\* inside the function.  index is the Go slice index (0-based); nodeGroups
\* are the node-group objects the caller's slice points to, after the call.
updateNodeGroupScale(clusterConfig, targetNg, desiredMinReplicas, desiredMaxReplicas, disallowPrompt, yes) ==
  LET matches == {i \in DOMAIN clusterConfig :
                    clusterConfig[i] # NilNodeGroup /\ clusterConfig[i].Name = targetNg}
  IN IF matches = {}
     THEN [outcome |-> "return", config |-> EmptyConfig, index |-> 0,
           err |-> "ErrorNodeGroupNotFound", nodeGroups |-> clusterConfig]
     ELSE LET idx == CHOOSE i \in matches : \A j \in matches : i <= j
              ng == clusterConfig[idx]
              minReplicas == IF desiredMinReplicas = NilInt THEN ng.MinInstances ELSE desiredMinReplicas[1]
              maxReplicas == IF desiredMaxReplicas = NilInt THEN ng.MaxInstances ELSE desiredMaxReplicas[1]
              updated == [clusterConfig EXCEPT ![idx].MinInstances = minReplicas,
                                               ![idx].MaxInstances = maxReplicas]
              rejected(e) == [outcome |-> "return", config |-> EmptyConfig, index |-> 0,
                              err |-> e, nodeGroups |-> clusterConfig]
          IN IF minReplicas < 0 THEN rejected("ErrorMinInstancesLowerThan")
             ELSE IF maxReplicas < 0 THEN rejected("ErrorMaxInstancesLowerThan")
             ELSE IF minReplicas > maxReplicas THEN rejected("ErrorMinInstancesGreaterThanMaxInstances")
             ELSE IF ng.MinInstances = minReplicas /\ ng.MaxInstances = maxReplicas
               THEN [outcome |-> "exit", config |-> EmptyConfig, index |-> 0,
                     err |-> NoError, nodeGroups |-> clusterConfig]
             ELSE IF ~disallowPrompt /\ ~yes
               THEN [outcome |-> "exit", config |-> EmptyConfig, index |-> 0,
                     err |-> NoError, nodeGroups |-> clusterConfig]
             ELSE [outcome |-> "return", config |-> updated, index |-> idx - 1,
                   err |-> NoError, nodeGroups |-> updated]

\* clusterstate.AssertClusterStatus: nil when the status is one of the allowed ones
AssertClusterStatus(status, allowed) ==
  IF status \in allowed THEN NoError ELSE "ErrUnexpectedClusterStatus"

\* ---------------------------------------------------------- command steps
Call(op, arg, ok) == calls' = Append(calls, Op(op, arg, ok))
Exit(e) == step' = "exited" /\ exitErr' = e
Step(s) == step' = s /\ exitErr' = exitErr
Called(op) == {i \in DOMAIN calls : calls[i].op = op}
handlerVars ==
  <<s3, targetURLValid, response, queueVars, pc, cur, late, localVars, ret, trace, deleteFailed, histVars>>

\* the statuses cluster scale accepts (line 830)
ScaleStatuses == {"StatusCreateComplete", "StatusUpdateComplete", "StatusUpdateRollbackComplete"}

\* cluster scale, lines 800-818: the flags, then the docker client, the
\* access config and the AWS client
ScaleCheckFlags ==
  /\ command = "scale" /\ step = "start"
  /\ IF flags.minInstances = NilInt /\ flags.maxInstances = NilInt
     THEN Exit("ErrorSpecifyAtLeastOneFlag")
     ELSE \E ok \in BOOLEAN : IF ok THEN Step("getClusterState") ELSE Exit("ErrEnvironment")
  /\ UNCHANGED <<command, flags, cloud, locals, calls, handlerVars>>

\* cluster scale, lines 825-833: the cluster's status must allow scaling
ScaleAssertClusterStatus ==
  /\ command = "scale" /\ step = "getClusterState"
  /\ \E ok \in BOOLEAN : \E status \in ClusterStatuses :
       IF ~ok
       THEN Call("GetClusterState", "StatusUnknown", FALSE) /\ Exit("ErrAWS") /\ UNCHANGED cloud
       ELSE /\ Call("GetClusterState", status, TRUE)
            /\ cloud' = [cloud EXCEPT !.status = status]
            /\ IF AssertClusterStatus(status, ScaleStatuses) # NoError
               THEN Exit(AssertClusterStatus(status, ScaleStatuses))
               ELSE Step("updateNodeGroupScale")
  /\ UNCHANGED <<command, flags, locals, handlerVars>>

\* cluster scale, lines 835-839: the cached cluster config is refreshed and
\* the node group's bounds are set in it
ScaleUpdateNodeGroupScale ==
  /\ command = "scale" /\ step = "updateNodeGroupScale"
  /\ \E clusterConfig \in ClusterConfigs : \E yes \in BOOLEAN :
       LET scaled == updateNodeGroupScale(clusterConfig, flags.nodeGroup, flags.minInstances,
                                          flags.maxInstances, flags.disallowPrompt, yes)
       IN /\ locals' = [locals EXCEPT !.refreshed = clusterConfig, !.scaled = scaled]
          /\ IF scaled.outcome = "exit" THEN Exit(NoError)
             ELSE IF scaled.err # NoError THEN Exit(scaled.err)
             ELSE Step("runManager")
  /\ UNCHANGED <<command, flags, cloud, calls, handlerVars>>

\* cluster scale, lines 841-854: the manager container updates the node group
ScaleRunManager ==
  /\ command = "scale" /\ step = "runManager"
  /\ LET ng == locals.scaled.config[locals.scaled.index + 1]
     IN \E ok \in BOOLEAN :
          /\ Call("/root/install.sh --update", <<flags.nodeGroup, ng.MinInstances, ng.MaxInstances>>, ok)
          /\ Exit(IF ok THEN NoError ELSE "ErrorClusterScale")
  /\ UNCHANGED <<command, flags, cloud, locals, handlerVars>>

\* ---------------------------------------------------------- cluster up
TagAttempts == 10
MaxBucketLifecycleRules == 100
MaxDirs == 101
\* cluster up accepting a cluster whose deletion failed
UpStatusesWithDeleteFailed == {"StatusNotFound", "StatusDeleteComplete", "StatusDeleteFailed"}

\* the statuses cluster up accepts (line 662)
UpStatuses == {"StatusNotFound", "StatusDeleteComplete"}

\* cluster up, lines 621-665: docker client, access config, environment,
\* AWS client and cluster config, then the cluster's status must allow creation
UpAssertClusterStatus ==
  /\ command = "up" /\ step = "start"
  /\ \E env \in BOOLEAN : \E ok \in BOOLEAN : \E status \in ClusterStatuses :
       IF ~env THEN Exit("ErrEnvironment") /\ UNCHANGED <<cloud, calls>>
       ELSE IF ~ok
       THEN Call("GetClusterState", "StatusUnknown", FALSE) /\ Exit("ErrAWS") /\ UNCHANGED cloud
       ELSE /\ Call("GetClusterState", status, TRUE)
            /\ cloud' = [cloud EXCEPT !.status = status]
            /\ IF AssertClusterStatus(status, UpStatuses) # NoError
               THEN Exit(AssertClusterStatus(status, UpStatuses))
               ELSE Step("doesBucketExist")
  /\ UNCHANGED <<command, flags, locals, handlerVars>>

\* createS3BucketIfNotFound, lines 1638-1641 and 1642, 1649-1651
UpDoesBucketExist ==
  /\ command = "up" /\ step = "doesBucketExist"
  /\ \E ok \in BOOLEAN : \E bucketFound \in BOOLEAN :
       IF ~ok THEN Call("DoesBucketExist", FALSE, FALSE) /\ Exit("ErrAWS") /\ UNCHANGED cloud
       ELSE /\ Call("DoesBucketExist", bucketFound, TRUE)
            /\ cloud' = [cloud EXCEPT !.bucket = IF bucketFound THEN "found" ELSE "missing"]
            /\ Step(IF bucketFound THEN "tagBucket" ELSE "createBucket")
  /\ UNCHANGED <<command, flags, locals, handlerVars>>

\* createS3BucketIfNotFound, lines 1643-1648
UpCreateBucket ==
  /\ command = "up" /\ step = "createBucket"
  /\ \E ok \in BOOLEAN :
       /\ Call("CreateBucket", cloud.bucket, ok)
       /\ IF ok THEN cloud' = [cloud EXCEPT !.bucket = "created"] /\ Step("tagBucket")
          ELSE UNCHANGED cloud /\ Exit("ErrAWS")
  /\ UNCHANGED <<command, flags, locals, handlerVars>>

\* createS3BucketIfNotFound with tagging retried after every error
UpTagBucketRetryingAll ==
  /\ command = "up" /\ step = "tagBucket"
  /\ locals.i < TagAttempts
  /\ \E err \in {NoError, "NoSuchBucket", "ErrAWS"} :
       /\ Call("TagBucket", err, err = NoError)
       /\ IF err = NoError
          THEN Step("deleteLifecycleRules") /\ UNCHANGED locals
          ELSE /\ locals' = [locals EXCEPT !.i = @ + 1]
               /\ IF locals.i + 1 < TagAttempts THEN Step("tagBucket") ELSE Exit(err)
  /\ UNCHANGED <<command, flags, cloud, handlerVars>>

\* createS3BucketIfNotFound, lines 1654-1667: one pass of the tagging loop,
\* and the return of the last error when the loop is left
UpTagBucket ==
  /\ command = "up" /\ step = "tagBucket"
  /\ locals.i < TagAttempts
  /\ \E err \in {NoError, "NoSuchBucket", "ErrAWS"} :
       /\ Call("TagBucket", err, err = NoError)
       /\ IF err = NoError
          THEN Step("deleteLifecycleRules") /\ UNCHANGED locals
          ELSE IF err # "NoSuchBucket"
          THEN Exit(err) /\ UNCHANGED locals
          ELSE /\ locals' = [locals EXCEPT !.i = @ + 1]
               /\ IF locals.i + 1 < TagAttempts THEN Step("tagBucket") ELSE Exit(err)
  /\ UNCHANGED <<command, flags, cloud, handlerVars>>

\* setLifecycleRulesOnClusterUp, lines 1671-1674
UpDeleteLifecycleRules ==
  /\ command = "up" /\ step = "deleteLifecycleRules"
  /\ \E ok \in BOOLEAN :
       /\ Call("DeleteLifecycleRules", "", ok)
       /\ IF ok THEN cloud' = [cloud EXCEPT !.rules = <<>>] /\ Step("listS3TopLevelDirs")
          ELSE UNCHANGED cloud /\ Exit("ErrAWS")
  /\ UNCHANGED <<command, flags, locals, handlerVars>>

\* setLifecycleRulesOnClusterUp with the limit compared to the directories alone
UpListS3TopLevelDirsNotCountingNew ==
  /\ command = "up" /\ step = "listS3TopLevelDirs"
  /\ \E ok \in BOOLEAN : \E clusterUIDs \in 0..MaxDirs :
       IF ~ok THEN Call("ListS3TopLevelDirs", 0, FALSE) /\ Exit("ErrAWS") /\ UNCHANGED locals
       ELSE /\ Call("ListS3TopLevelDirs", clusterUIDs, TRUE)
            /\ locals' = [locals EXCEPT !.clusterUIDs = clusterUIDs]
            /\ IF clusterUIDs > MaxBucketLifecycleRules
               THEN Exit("ErrorClusterUIDsLimitInBucket")
               ELSE Step("setLifecycleRules")
  /\ UNCHANGED <<command, flags, cloud, handlerVars>>

\* setLifecycleRulesOnClusterUp, lines 1676-1683: the bucket's top-level
\* directories are cluster UIDs 1..clusterUIDs; the new cluster's UID is 0
UpListS3TopLevelDirs ==
  /\ command = "up" /\ step = "listS3TopLevelDirs"
  /\ \E ok \in BOOLEAN : \E clusterUIDs \in 0..MaxDirs :
       IF ~ok THEN Call("ListS3TopLevelDirs", 0, FALSE) /\ Exit("ErrAWS") /\ UNCHANGED locals
       ELSE /\ Call("ListS3TopLevelDirs", clusterUIDs, TRUE)
            /\ locals' = [locals EXCEPT !.clusterUIDs = clusterUIDs]
            /\ IF clusterUIDs + 1 > MaxBucketLifecycleRules
               THEN Exit("ErrorClusterUIDsLimitInBucket")
               ELSE Step("setLifecycleRules")
  /\ UNCHANGED <<command, flags, cloud, handlerVars>>

\* setLifecycleRulesOnClusterUp, lines 1685-1711: one rule per directory,
\* then the rule for the new cluster's async workloads
UpSetLifecycleRules ==
  /\ command = "up" /\ step = "setLifecycleRules"
  /\ LET rules == [i \in 1..(locals.clusterUIDs + 1) |->
                     IF i <= locals.clusterUIDs
                     THEN [ID |-> "cluster-remove-", clusterUID |-> i]
                     ELSE [ID |-> "async-workloads-expiry-policy", clusterUID |-> 0]]
     IN \E ok \in BOOLEAN :
          /\ Call("SetLifecycleRules", rules, ok)
          /\ IF ok THEN cloud' = [cloud EXCEPT !.rules = rules] /\ Step("createLogGroup")
             ELSE UNCHANGED cloud /\ Exit("ErrAWS")
  /\ UNCHANGED <<command, flags, locals, handlerVars>>

\* cluster up, lines 677-680, and createLogGroupIfNotFound
UpCreateLogGroupIfNotFound ==
  /\ command = "up" /\ step = "createLogGroup"
  /\ \E ok \in BOOLEAN : \E logGroupFound \in BOOLEAN : \E written \in BOOLEAN :
       /\ calls' = IF ~ok THEN Append(calls, Op("DoesLogGroupExist", FALSE, FALSE))
                   ELSE calls \o <<Op("DoesLogGroupExist", logGroupFound, TRUE),
                                   Op(IF logGroupFound THEN "TagLogGroup" ELSE "CreateLogGroup", "", written)>>
       /\ IF ok /\ written THEN Step("createDefaultPolicy") ELSE Exit("ErrAWS")
  /\ UNCHANGED <<command, flags, cloud, locals, handlerVars>>

\* cluster up, lines 682-696
UpCreateDefaultPolicy ==
  /\ command = "up" /\ step = "createDefaultPolicy"
  /\ \E accountID \in BOOLEAN : \E ok \in BOOLEAN :
       /\ calls' = IF ~accountID THEN Append(calls, Op("GetCachedAccountID", "", FALSE))
                   ELSE calls \o <<Op("GetCachedAccountID", "", TRUE), Op("CreateDefaultPolicy", "", ok)>>
       /\ IF accountID /\ ok THEN Step("runManager") ELSE Exit("ErrAWS")
  /\ UNCHANGED <<command, flags, cloud, locals, handlerVars>>

\* cluster up, lines 698-790: the manager container creates the cluster
UpRunManager ==
  /\ command = "up" /\ step = "runManager"
  /\ \E ok \in BOOLEAN :
       /\ Call("/root/install.sh", "", ok)
       /\ Exit(IF ok THEN NoError ELSE "ErrorClusterUp")
  /\ UNCHANGED <<command, flags, cloud, locals, handlerVars>>

\* -------------------------------------------------------- cluster down
MaxVolumes == 2

\* listPVCVolumesForCluster, then DeleteVolume for every volume listed;
\* results[i] tells whether the i-th volume was deleted
VolumeCalls(listed, results) ==
  IF ~listed THEN <<Op("listPVCVolumesForCluster", 0, FALSE)>>
  ELSE <<Op("listPVCVolumesForCluster", Len(results), TRUE)>>
         \o [i \in DOMAIN results |-> Op("DeleteVolume", i, results[i])]

Collect(errs) == locals' = [locals EXCEPT !.errorsList = @ \o errs]

\* cluster down, lines 897-926: docker client, access config, AWS client,
\* account id, then the prompt (yes: --yes was given or the user agreed)
DownStart ==
  /\ command = "down" /\ step = "start"
  /\ \E env \in BOOLEAN : \E yes \in BOOLEAN :
       IF ~env THEN Exit("ErrEnvironment")
       ELSE IF ~yes THEN Exit(NoError)
       ELSE Step("getClusterState")
  /\ UNCHANGED <<command, flags, cloud, locals, calls, handlerVars>>

\* cluster down, lines 928-957: the cluster's status; status is the
\* cluster's actual status, which the command learns only when the call
\* succeeds.  The switch has the cases StatusNotFound, StatusDeleteComplete
\* and default: two statuses stand for the default case, and when the call
\* fails one status stands for a cluster that exists and one for none.
DownGetClusterState ==
  /\ command = "down" /\ step = "getClusterState"
  /\ \E ok \in BOOLEAN :
     \E status \in {"StatusNotFound", "StatusDeleteComplete", "StatusCreateComplete", "StatusDeleteFailed"} :
       /\ ~ok => status \in {"StatusNotFound", "StatusCreateComplete"}
       /\ cloud' = [cloud EXCEPT !.status = status]
       /\ IF ~ok
          THEN /\ Call("GetClusterState", "StatusUnknown", FALSE)
               /\ Collect(<<"GetClusterState">>)
          ELSE IF status = "StatusNotFound"
          THEN Call("GetClusterState", status, TRUE) /\ UNCHANGED locals
          ELSE IF status = "StatusDeleteComplete"
          THEN /\ \E queues \in BOOLEAN : \E policy \in BOOLEAN : \E listed \in BOOLEAN :
                    \E results \in SeqsUpTo(BOOLEAN, MaxVolumes) :
                      calls' = calls \o <<Op("GetClusterState", status, TRUE),
                                          Op("DeleteQueuesWithPrefix", "", queues),
                                          Op("DeletePolicy", "", policy)>>
                                     \o (IF flags.keepAWSResources THEN <<>>
                                         ELSE VolumeCalls(listed, results))
               /\ UNCHANGED locals
          ELSE /\ Call("GetClusterState", status, TRUE)
               /\ locals' = [locals EXCEPT !.clusterExists = TRUE]
  /\ Step("deleteQueues")
  /\ UNCHANGED <<command, flags, handlerVars>>

\* cluster down, lines 962-976: the queues are deleted, and
\* clusterDoesntExist is set
DownDeleteQueues ==
  /\ command = "down" /\ step = "deleteQueues"
  /\ \E ok \in BOOLEAN :
       /\ Call("DeleteQueuesWithPrefix", "", ok)
       /\ locals' = [locals EXCEPT !.clusterDoesntExist = ~locals.clusterExists,
                                   !.errorsList = IF ok THEN @ ELSE Append(@, "DeleteQueuesWithPrefix")]
  /\ Step("uninstall")
  /\ UNCHANGED <<command, flags, cloud, handlerVars>>

\* cluster down, lines 977-995: the manager container deletes the cluster
DownUninstall ==
  /\ command = "down" /\ step = "uninstall"
  /\ IF ~locals.clusterExists THEN UNCHANGED <<calls, locals, cloud>>
     ELSE \E ok \in BOOLEAN :
            /\ Call("/root/uninstall.sh", "", ok)
            /\ cloud' = [cloud EXCEPT !.status = IF ok THEN "StatusDeleteComplete" ELSE @]
            /\ locals' = IF ok THEN [locals EXCEPT !.clusterDoesntExist = TRUE]
                         ELSE [locals EXCEPT !.errorsList = Append(@, "/root/uninstall.sh")]
  /\ Step("setLifecycleRules")
  /\ UNCHANGED <<command, flags, handlerVars>>

\* cluster down, lines 997-1022, and setLifecycleRulesOnClusterDown
DownSetLifecycleRules ==
  /\ command = "down" /\ step = "setLifecycleRules"
  /\ IF flags.keepAWSResources THEN UNCHANGED <<calls, locals, cloud>>
     ELSE \E ok \in BOOLEAN : \E bucketExists \in BOOLEAN : \E deleted \in BOOLEAN : \E set \in BOOLEAN :
            LET made == IF ~ok THEN <<Op("DoesBucketExist", FALSE, FALSE)>>
                        ELSE IF ~bucketExists THEN <<Op("DoesBucketExist", FALSE, TRUE)>>
                        ELSE IF ~deleted
                        THEN <<Op("DoesBucketExist", TRUE, TRUE), Op("DeleteLifecycleRules", "", FALSE)>>
                        ELSE <<Op("DoesBucketExist", TRUE, TRUE), Op("DeleteLifecycleRules", "", TRUE),
                               Op("SetLifecycleRules", <<[ID |-> "bucket-cleaner", clusterUID |-> 0]>>, set)>>
            IN /\ calls' = calls \o made
               /\ cloud' = [cloud EXCEPT !.rules = IF ok /\ bucketExists /\ deleted
                                                   THEN IF set THEN made[3].key ELSE <<>>
                                                   ELSE @]
               /\ Collect(IF made[Len(made)].ok THEN <<>> ELSE <<made[Len(made)].op>>)
  /\ Step("deletePolicy")
  /\ UNCHANGED <<command, flags, handlerVars>>

\* cluster down, lines 1024-1048: the policy is deleted once the cluster is
\* taken not to exist
DownDeletePolicy ==
  /\ command = "down" /\ step = "deletePolicy"
  /\ IF ~locals.clusterDoesntExist THEN UNCHANGED <<calls, locals>>
     ELSE \E ok \in BOOLEAN : \E policy \in BOOLEAN : \E deleted \in BOOLEAN :
            LET made == IF ~ok THEN <<Op("GetPolicyOrNil", FALSE, FALSE)>>
                        ELSE IF ~policy THEN <<Op("GetPolicyOrNil", FALSE, TRUE)>>
                        ELSE <<Op("GetPolicyOrNil", TRUE, TRUE), Op("DeletePolicy", "", deleted)>>
            IN /\ calls' = calls \o made
               /\ Collect(IF made[Len(made)].ok THEN <<>> ELSE <<made[Len(made)].op>>)
  /\ Step("deleteVolumes")
  /\ UNCHANGED <<command, flags, cloud, handlerVars>>

\* cluster down, lines 1050-1079: of the volumes that could not be deleted
\* only the last error is kept
DownDeleteVolumes ==
  /\ command = "down" /\ step = "deleteVolumes"
  /\ IF flags.keepAWSResources THEN UNCHANGED <<calls, locals>>
     ELSE \E listed \in BOOLEAN : \E results \in SeqsUpTo(BOOLEAN, MaxVolumes) :
            /\ calls' = calls \o VolumeCalls(listed, results)
            /\ Collect(IF ~listed THEN <<"listPVCVolumesForCluster">>
                       ELSE IF \E i \in DOMAIN results : ~results[i] THEN <<"DeleteVolume">>
                       ELSE <<>>)
  /\ Step("deleteLogGroup")
  /\ UNCHANGED <<command, flags, cloud, handlerVars>>

\* cluster down, lines 1081-1104
DownDeleteLogGroup ==
  /\ command = "down" /\ step = "deleteLogGroup"
  /\ IF flags.keepAWSResources THEN UNCHANGED <<calls, locals>>
     ELSE \E ok \in BOOLEAN : \E logGroupExists \in BOOLEAN : \E deleted \in BOOLEAN :
            LET made == IF ~ok THEN <<Op("DoesLogGroupExist", FALSE, FALSE)>>
                        ELSE IF ~logGroupExists THEN <<Op("DoesLogGroupExist", FALSE, TRUE)>>
                        ELSE <<Op("DoesLogGroupExist", TRUE, TRUE), Op("DeleteLogGroup", "", deleted)>>
            IN /\ calls' = calls \o made
               /\ Collect(IF made[Len(made)].ok THEN <<>> ELSE <<made[Len(made)].op>>)
  /\ Step("exit")
  /\ UNCHANGED <<command, flags, cloud, handlerVars>>

\* cluster down, lines 1106-1141: the collected errors end the command with
\* an error; without any, the CLI environments of the cluster's load
\* balancer (looked up at line 960, nil when the lookup failed) are removed
DownExit ==
  /\ command = "down" /\ step = "exit"
  /\ IF Len(locals.errorsList) > 0 THEN Exit("ErrClusterDown")
     ELSE \E loadBalancer \in BOOLEAN : \E removed \in BOOLEAN :
            Exit(IF loadBalancer /\ ~removed THEN "ErrEnvironment" ELSE NoError)
  /\ UNCHANGED <<command, flags, cloud, locals, calls, handlerVars>>

\* the dequeuer does not run while a cluster command does
HandlerIdle ==
  /\ s3 = [k \in Keys |-> NoObject]
  /\ targetURLValid = TRUE
  /\ response = NotReachable
  /\ msgBody = [m \in MsgIds |-> RequestIDOf(m)]
  /\ msgState = [m \in MsgIds |-> "deleted"]
  /\ receiveCount = [m \in MsgIds |-> 0]
  /\ pc = [w \in Workers |-> "idle"]
  /\ cur = [w \in Workers |-> 1]
  /\ late = [w \in Workers |-> FALSE]
  /\ requestID = [w \in Workers |-> ""]
  /\ payload = [w \in Workers |-> NoPayload]
  /\ result = [w \in Workers |-> ""]
  /\ fwdErr = [w \in Workers |-> NoError]
  /\ getErr = [w \in Workers |-> NoError]
  /\ ret = [w \in Workers |-> Running]
  /\ trace = [w \in Workers |-> <<>>]
  /\ deleteFailed = {}
  /\ uploadFailed = {}
  /\ completedFailed = {}
  /\ posts = [r \in KeyIDs |-> 0]

\* one cluster command is started, with its flags
InitCli ==
  /\ HandlerIdle
  /\ step = "start"
  /\ calls = <<>>
  /\ exitErr = Running
  /\ cloud = [status |-> "StatusUnknown", bucket |-> "<unknown>", rules |-> <<[ID |-> "<previous rule>", clusterUID |-> 0]>>]
  /\ \/ /\ command = "up"
        /\ flags = <<>>
        /\ locals = [i |-> 0, clusterUIDs |-> 0]
     \/ /\ command = "down"
        /\ flags \in [keepAWSResources : BOOLEAN]
        /\ locals = [errorsList |-> <<>>, clusterExists |-> FALSE, clusterDoesntExist |-> FALSE]
     \/ /\ command = "scale"
        /\ flags \in [nodeGroup : {"ng-a"}, minInstances : DesiredInstances,
                      maxInstances : DesiredInstances, disallowPrompt : BOOLEAN]
        /\ locals = [refreshed |-> EmptyConfig,
                     scaled |-> [outcome |-> "none", config |-> EmptyConfig, index |-> 0,
                                 err |-> NoError, nodeGroups |-> EmptyConfig]]

NextCli ==
  \/ UpAssertClusterStatus
  \/ UpDoesBucketExist
  \/ UpCreateBucket
  \/ UpTagBucket
  \/ UpDeleteLifecycleRules
  \/ UpListS3TopLevelDirs
  \/ UpSetLifecycleRules
  \/ UpCreateLogGroupIfNotFound
  \/ UpCreateDefaultPolicy
  \/ UpRunManager
  \/ DownStart
  \/ DownGetClusterState
  \/ DownDeleteQueues
  \/ DownUninstall
  \/ DownSetLifecycleRules
  \/ DownDeletePolicy
  \/ DownDeleteVolumes
  \/ DownDeleteLogGroup
  \/ DownExit
  \/ ScaleCheckFlags
  \/ ScaleAssertClusterStatus
  \/ ScaleUpdateNodeGroupScale
  \/ ScaleRunManager

CliSpec == InitCli /\ [][NextCli]_vars

\* ---------------------------------------------------------------- C33
\* C33: updateNodeGroupScale rejects an invalid request without changing
\* any node group: when no node group has the target name, or the effective
\* min is below 0, or the effective max is below 0, or the effective min is
\* above the effective max (a bound that was not given is the node group's
\* current one), it returns an error and an empty config, the node groups
\* are as they were, and the command exits with that error before the
\* manager is run.
C33_RejectsInvalid ==
  (command = "scale" /\ locals.scaled.outcome # "none") =>
    LET cfg == locals.refreshed
        named == {i \in DOMAIN cfg : cfg[i] # NilNodeGroup /\ cfg[i].Name = flags.nodeGroup}
        invalid ==
          \/ named = {}
          \/ \E i \in named :
               /\ \A j \in named : i <= j
               /\ LET min == IF flags.minInstances = NilInt THEN cfg[i].MinInstances
                             ELSE flags.minInstances[1]
                      max == IF flags.maxInstances = NilInt THEN cfg[i].MaxInstances
                             ELSE flags.maxInstances[1]
                  IN min < 0 \/ max < 0 \/ min > max
    IN /\ invalid =>
            /\ locals.scaled.outcome = "return"
            /\ locals.scaled.err # NoError
            /\ locals.scaled.config = EmptyConfig
            /\ step = "exited" /\ exitErr = locals.scaled.err
            /\ Called("/root/install.sh --update") = {}
       /\ locals.scaled.err # NoError => locals.scaled.nodeGroups = cfg

\* a request with only --min-instances, above the node group's current max, was rejected
C33_Witness ==
  /\ command = "scale"
  /\ flags.maxInstances = NilInt /\ flags.minInstances # NilInt
  /\ locals.scaled.err = "ErrorMinInstancesGreaterThanMaxInstances"
  /\ Len(locals.refreshed) = MaxNodeGroups

\* ---------------------------------------------------------------- C34
\* C34: when updateNodeGroupScale succeeds, the index it returns is that of
\* the (first) node group with the target name, that node group's bounds
\* satisfy 0 <= MinInstances <= MaxInstances and are the requested ones (a
\* bound that was not given keeps its previous value), and every other node
\* group is unchanged.
C34_ScalesTarget ==
  (command = "scale" /\ locals.scaled.outcome = "return" /\ locals.scaled.err = NoError) =>
    LET cfg == locals.refreshed
        new == locals.scaled.config
        idx == locals.scaled.index + 1
    IN /\ idx \in DOMAIN cfg /\ DOMAIN new = DOMAIN cfg
       /\ cfg[idx] # NilNodeGroup /\ cfg[idx].Name = flags.nodeGroup
       /\ \A j \in 1..(idx - 1) : cfg[j] = NilNodeGroup \/ cfg[j].Name # flags.nodeGroup
       /\ new[idx].Name = flags.nodeGroup
       /\ 0 <= new[idx].MinInstances /\ new[idx].MinInstances <= new[idx].MaxInstances
       /\ new[idx].MinInstances = IF flags.minInstances = NilInt THEN cfg[idx].MinInstances
                                  ELSE flags.minInstances[1]
       /\ new[idx].MaxInstances = IF flags.maxInstances = NilInt THEN cfg[idx].MaxInstances
                                  ELSE flags.maxInstances[1]
       /\ \A j \in DOMAIN cfg : j # idx => new[j] = cfg[j]
       /\ locals.scaled.nodeGroups = new

\* the second node group was scaled with only --max-instances given, and the manager ran
C34_Witness ==
  /\ command = "scale"
  /\ locals.scaled.outcome = "return" /\ locals.scaled.err = NoError
  /\ locals.scaled.index = 1
  /\ locals.refreshed[1] # NilNodeGroup
  /\ flags.minInstances = NilInt
  /\ locals.scaled.config # locals.refreshed
  /\ Called("/root/install.sh --update") # {}

\* ---------------------------------------------------------------- C35
\* C35: createS3BucketIfNotFound creates the bucket only when
\* DoesBucketExist reported it missing, and then tags it with at most
\* TagAttempts attempts: an attempt is repeated only after a 'no such
\* bucket' error, the first success or the first other error ends the
\* tagging, after TagAttempts failed attempts the last tagging error is
\* returned (and cluster up exits with it), and the function always
\* terminates (it makes at most 2 + TagAttempts calls, and while it is in
\* the tagging loop an attempt is left).
C35_BucketCreatedThenTagged ==
  command = "up" =>
    LET creates == Called("CreateBucket")
        tags == Called("TagBucket")
        exists == Called("DoesBucketExist")
    IN /\ Cardinality(creates) <= 1
       /\ \A i \in creates : i - 1 \in exists /\ calls[i - 1].ok /\ ~calls[i - 1].key
       /\ (\E i \in exists : calls[i].ok /\ calls[i].key) => creates = {}
       /\ (\E i \in exists : ~calls[i].ok) => creates = {} /\ tags = {} /\ exitErr = "ErrAWS"
       /\ \A i \in tags : \/ i - 1 \in exists /\ calls[i - 1].ok /\ calls[i - 1].key
                          \/ i - 1 \in creates /\ calls[i - 1].ok
                          \/ i - 1 \in tags
       /\ Cardinality(tags) <= TagAttempts
       /\ \A i \in tags : \A j \in tags : i < j => calls[i].key = "NoSuchBucket"
       /\ \A i \in tags :
            (calls[i].key # NoError /\ (calls[i].key # "NoSuchBucket" \/ Cardinality(tags) = TagAttempts)
               /\ \A j \in tags : j <= i)
              => step = "exited" /\ exitErr = calls[i].key
       /\ \A i \in tags : calls[i].key = NoError => exitErr # "NoSuchBucket"
       /\ step \in {"doesBucketExist", "createBucket", "tagBucket"}
            => /\ Len(calls) <= 2 + TagAttempts
               /\ step = "tagBucket" => Cardinality(tags) < TagAttempts /\ locals.i = Cardinality(tags)

\* the bucket was missing and was created, and all TagAttempts attempts to tag it found no such bucket
C35_Witness ==
  /\ command = "up"
  /\ Called("CreateBucket") # {}
  /\ Cardinality(Called("TagBucket")) = TagAttempts
  /\ step = "exited" /\ exitErr = "NoSuchBucket"

\* ---------------------------------------------------------------- C36
\* C36: setLifecycleRulesOnClusterUp never installs more than
\* MaxBucketLifecycleRules rules.  Once the bucket's directories are listed:
\* with directories + 1 > MaxBucketLifecycleRules it fails with
\* ErrorClusterUIDsLimitInBucket and sets no rules; otherwise the rules it
\* sets are exactly one "cluster-remove-" rule per directory and one
\* "async-workloads-expiry-policy" rule for the new cluster; in both cases
\* the previous rules were deleted before.
C36_LifecycleRulesWithinLimit ==
  command = "up" =>
    LET sets == Called("SetLifecycleRules")
        lists == {i \in Called("ListS3TopLevelDirs") : calls[i].ok}
    IN /\ \A j \in sets : Len(calls[j].key) <= MaxBucketLifecycleRules
       /\ Len(cloud.rules) <= MaxBucketLifecycleRules
       /\ sets # {} => lists # {}
       /\ \A i \in lists :
            LET dirs == calls[i].key
            IN /\ i - 1 \in Called("DeleteLifecycleRules") /\ calls[i - 1].ok
               /\ \A r \in DOMAIN cloud.rules : cloud.rules[r].ID # "<previous rule>"
               /\ dirs + 1 > MaxBucketLifecycleRules
                    => /\ sets = {} /\ cloud.rules = <<>>
                       /\ step = "exited" /\ exitErr = "ErrorClusterUIDsLimitInBucket"
               /\ dirs + 1 <= MaxBucketLifecycleRules
                    => /\ step # "setLifecycleRules" => sets = {i + 1}
                       /\ \A j \in sets :
                            LET rules == calls[j].key
                            IN /\ Len(rules) = dirs + 1
                               /\ \A d \in 1..dirs :
                                    Cardinality({r \in DOMAIN rules : rules[r].clusterUID = d}) = 1
                               /\ \A r \in DOMAIN rules :
                                    rules[r].ID = IF rules[r].clusterUID = 0
                                                  THEN "async-workloads-expiry-policy"
                                                  ELSE "cluster-remove-"
                               /\ Cardinality({r \in DOMAIN rules : rules[r].clusterUID = 0}) = 1
                               /\ cloud.rules = IF calls[j].ok THEN rules ELSE <<>>

\* the bucket held MaxBucketLifecycleRules - 1 directories and MaxBucketLifecycleRules rules were installed
C36_Witness ==
  /\ command = "up"
  /\ \E i \in Called("ListS3TopLevelDirs") : calls[i].ok /\ calls[i].key = MaxBucketLifecycleRules - 1
  /\ Len(cloud.rules) = MaxBucketLifecycleRules
  /\ cloud.rules[1].ID = "cluster-remove-"

\* ---------------------------------------------------------------- C37
\* C37, as stated: in cluster down the failure of one cleanup step does not
\* stop the later ones (once the command is at its exit the queue deletion
\* and, unless the AWS resources are kept, the bucket lifecycle, volume and
\* log-group steps were attempted, and so was the uninstall of a cluster
\* found to exist), every failed call is collected, the command exits with
\* an error exactly when an error was collected, and the IAM policy is
\* deleted only when the cluster does not exist or the uninstall succeeded,
\* and after the uninstall step.
C37_AsStated ==
  command = "down" =>
    /\ step \in {"exit", "exited"} /\ Called("GetClusterState") # {} =>
         /\ \E i \in Called("DeleteQueuesWithPrefix") : \E j \in Called("GetClusterState") : i > j
         /\ locals.clusterExists => Called("/root/uninstall.sh") # {}
         /\ ~flags.keepAWSResources =>
              /\ Called("DoesBucketExist") # {}
              /\ Called("listPVCVolumesForCluster") # {}
              /\ Called("DoesLogGroupExist") # {}
         /\ \A i \in DOMAIN calls :
              ~calls[i].ok => \E e \in DOMAIN locals.errorsList : locals.errorsList[e] = calls[i].op
    /\ step = "exited" /\ Called("GetClusterState") # {} =>
         (exitErr # NoError <=> Len(locals.errorsList) > 0)
    /\ \A i \in Called("DeletePolicy") :
         /\ \/ cloud.status \in {"StatusNotFound", "StatusDeleteComplete"}
            \/ \E j \in Called("/root/uninstall.sh") : calls[j].ok
         /\ \A j \in Called("/root/uninstall.sh") : j < i

\* ---------------------------------------------------------------- C38
\* C38: cluster up creates no bucket, no log group, no policy and no cluster
\* unless the cluster's status is StatusNotFound or StatusDeleteComplete;
\* cluster scale runs no update unless the status is StatusCreateComplete,
\* StatusUpdateComplete or StatusUpdateRollbackComplete.
C38_StatusGuards ==
  /\ (command = "up" /\ \E op \in {"CreateBucket", "CreateLogGroup", "CreateDefaultPolicy", "/root/install.sh"} :
                          Called(op) # {})
       => cloud.status \in {"StatusNotFound", "StatusDeleteComplete"}
  /\ (command = "scale" /\ Called("/root/install.sh --update") # {})
       => cloud.status \in {"StatusCreateComplete", "StatusUpdateComplete", "StatusUpdateRollbackComplete"}
  /\ (command \in {"up", "scale"} /\ \E i \in Called("GetClusterState") : ~calls[i].ok)
       => Len(calls) = 1 /\ step = "exited"

\* cluster up created the bucket, the log group, the policy and the cluster where a deleted cluster had been
C38_Witness ==
  /\ command = "up"
  /\ cloud.status = "StatusDeleteComplete"
  /\ \A op \in {"CreateBucket", "CreateLogGroup", "CreateDefaultPolicy", "/root/install.sh"} :
       \E i \in Called(op) : calls[i].ok
  /\ exitErr = NoError

====
